---------------------------- MODULE Spec2Model ----------------------------
(***************************************************************************)
(* A model of rustlox: the scanner (scanner.rs), the single-pass compiler  *)
(* (compiler.rs), the chunk and constant pool (chunk.rs, value.rs), the    *)
(* heap objects with the intern table (object.rs) and the virtual machine  *)
(* with interpret (vm.rs).                                                 *)
(*                                                                         *)
(* Conventions.                                                            *)
(*  - Source text is a TLA+ string; indices into it are 0-based as in the  *)
(*    Rust code and converted at the point of access.                      *)
(*  - A heap pointer is an index into `heap` (1..Len(heap)); 0 is null.    *)
(*  - An f64 is a normalised fraction <<num, den>> with den >= 0; den = 0  *)
(*    encodes the non-finite values: <<1,0>> = inf, <<-1,0>> = -inf and    *)
(*    <<0,0>> = NaN.  Rounding and signed zero are not modelled.           *)
(*  - A Rust panic (index out of bounds, arithmetic overflow) ends the     *)
(*    process: result = "Panic".                                           *)
(***************************************************************************)
EXTENDS Integers, Sequences, FiniteSets, TLC

(***************************************************************************)
(* Program constants                                                       *)
(***************************************************************************)
UINT8_COUNT == 256
FRAMES_MAX == 64
STACK_MAX == FRAMES_MAX * UINT8_COUNT
U16_MAX == 65535

(***************************************************************************)
(* scanner.rs                                                              *)
(***************************************************************************)
NUL == "NUL"

Lower ==
  {"a","b","c","d","e","f","g","h","i","j","k","l","m",
   "n","o","p","q","r","s","t","u","v","w","x","y","z"}

Upper ==
  {"A","B","C","D","E","F","G","H","I","J","K","L","M",
   "N","O","P","Q","R","S","T","U","V","W","X","Y","Z"}

Digits == {"0","1","2","3","4","5","6","7","8","9"}

\* Token::default(): EOF, empty text, line 0.
DefaultToken == [token_type |-> "EOF", text |-> "", line |-> 0]

new_scanner(source) ==
  [source |-> source, start |-> 0, current |-> 0, line |-> 1]

\* source.as_bytes()[i] as char
ByteAt(sc, i) == SubSeq(sc.source, i + 1, i + 1)

is_at_end(sc) == sc.current >= Len(sc.source)

scanner_peek(sc) == IF is_at_end(sc) THEN NUL ELSE ByteAt(sc, sc.current)

scanner_peek_next(sc) ==
  IF sc.current + 1 >= Len(sc.source) THEN NUL ELSE ByteAt(sc, sc.current + 1)

is_alpha(c) == c \in Lower \cup Upper \cup {"_"}

is_digit(c) == c \in Digits

\* Scanner::advance, the cursor part (the byte it returns is ByteAt(sc, sc.current)).
scanner_advance(sc) == [sc EXCEPT !.current = @ + 1]

make_token(sc, token_type) ==
  [token_type |-> token_type,
   text |-> SubSeq(sc.source, sc.start + 1, sc.current),
   line |-> sc.line]

error_token(sc, message) ==
  [token_type |-> "Error", text |-> message, line |-> sc.line]

RECURSIVE skip_comment(_)
skip_comment(sc) ==
  IF scanner_peek(sc) # "\n" /\ ~is_at_end(sc)
    THEN skip_comment(scanner_advance(sc))
    ELSE sc

RECURSIVE skip_whitespace(_)
skip_whitespace(sc) ==
  LET c == scanner_peek(sc) IN
  IF c \in {" ", "\r", "\t"} THEN skip_whitespace(scanner_advance(sc))
  ELSE IF c = "\n"
    THEN skip_whitespace(scanner_advance([sc EXCEPT !.line = @ + 1]))
  ELSE IF c = "/" /\ scanner_peek_next(sc) = "/" THEN skip_whitespace(skip_comment(sc))
  ELSE sc

match_char(sc, expected) ==
  IF is_at_end(sc) THEN FALSE ELSE ByteAt(sc, sc.current) = expected

\* check_keyword that compares the length of the lexeme only.
check_keyword_by_length(sc, start, length, rest, token_type) ==
  IF sc.current - sc.start = start + length
    THEN token_type
    ELSE "Identifier"

check_keyword(sc, start, length, rest, token_type) ==
  IF /\ sc.current - sc.start = start + length
     /\ SubSeq(sc.source, sc.start + start + 1, sc.start + start + length) = rest
    THEN token_type
    ELSE "Identifier"

identifier_type(sc) ==
  LET c == ByteAt(sc, sc.start)
      d == ByteAt(sc, sc.start + 1)
  IN CASE c = "a" -> check_keyword(sc, 1, 2, "nd", "And")
       [] c = "c" -> check_keyword(sc, 1, 4, "lass", "Class")
       [] c = "e" -> check_keyword(sc, 1, 3, "lse", "Else")
       [] c = "i" -> check_keyword(sc, 1, 1, "f", "If")
       [] c = "n" -> check_keyword(sc, 1, 2, "il", "Nil")
       [] c = "o" -> check_keyword(sc, 1, 1, "r", "Or")
       [] c = "p" -> check_keyword(sc, 1, 4, "rint", "Print")
       [] c = "r" -> check_keyword(sc, 1, 5, "eturn", "Return")
       [] c = "s" -> check_keyword(sc, 1, 4, "uper", "Super")
       [] c = "v" -> check_keyword(sc, 1, 2, "ar", "Var")
       [] c = "w" -> check_keyword(sc, 1, 4, "hile", "While")
       [] c = "f" ->
            IF sc.current - sc.start <= 1 THEN "Identifier"
            ELSE CASE d = "a" -> check_keyword(sc, 2, 3, "lse", "False")
                   [] d = "o" -> check_keyword(sc, 2, 1, "r", "For")
                   [] d = "u" -> check_keyword(sc, 2, 1, "n", "Fun")
                   [] OTHER -> "Identifier"
       [] c = "t" ->
            IF sc.current - sc.start <= 1 THEN "Identifier"
            ELSE CASE d = "h" -> check_keyword(sc, 2, 2, "is", "This")
                   [] d = "r" -> check_keyword(sc, 2, 2, "ue", "True")
                   [] OTHER -> "Identifier"
       [] OTHER -> "Identifier"

RECURSIVE identifier_rest(_)
identifier_rest(sc) ==
  IF is_alpha(scanner_peek(sc)) \/ is_digit(scanner_peek(sc))
    THEN identifier_rest(scanner_advance(sc))
    ELSE sc

\* Each of the scanning functions returns the scanner after the call and the token.
scanned(sc, token_type) ==
  [scanner |-> sc, token |-> make_token(sc, token_type)]

identifier_token(sc) == scanned(sc, identifier_type(sc))

identifier(sc) == identifier_token(identifier_rest(sc))

RECURSIVE digits_rest(_)
digits_rest(sc) ==
  IF is_digit(scanner_peek(sc)) THEN digits_rest(scanner_advance(sc)) ELSE sc

\* The fractional part of a number, if one follows.
number_fraction(sc) ==
  IF scanner_peek(sc) = "." /\ is_digit(scanner_peek_next(sc))
    THEN digits_rest(scanner_advance(sc))
    ELSE sc

scan_number(sc) == scanned(number_fraction(digits_rest(sc)), "Number")

RECURSIVE string_rest(_)
string_rest(sc) ==
  IF scanner_peek(sc) # "\"" /\ ~is_at_end(sc)
    THEN string_rest(scanner_advance(
           IF scanner_peek(sc) = "\n" THEN [sc EXCEPT !.line = @ + 1] ELSE sc))
    ELSE sc

\* scan_string after its loop.
string_token(sc) ==
  IF is_at_end(sc)
    THEN [scanner |-> sc, token |-> error_token(sc, "Unterminated string.")]
    ELSE scanned(scanner_advance(sc), "String")

scan_string(sc) == string_token(string_rest(sc))

SingleCharTokens ==
  [c \in {"(", ")", "{", "}", ";", ",", ".", "-", "+", "/", "*"} |->
     CASE c = "(" -> "LeftParen"  [] c = ")" -> "RightParen"
       [] c = "{" -> "LeftBrace"  [] c = "}" -> "RightBrace"
       [] c = ";" -> "Semicolon"  [] c = "," -> "Comma"
       [] c = "." -> "Dot"        [] c = "-" -> "Minus"
       [] c = "+" -> "Plus"       [] c = "/" -> "Slash"
       [] c = "*" -> "Star"]

\* '!' '=' '<' '>': the token without and with a following '='.
TwoCharTokens ==
  [c \in {"!", "=", "<", ">"} |->
     CASE c = "!" -> <<"Bang", "BangEqual">>
       [] c = "=" -> <<"Equal", "EqualEqual">>
       [] c = "<" -> <<"Less", "LessEqual">>
       [] c = ">" -> <<"Greater", "GreaterEqual">>]

\* scan_token after `let c = self.advance()`.
scan_token_char(sc, c) ==
  IF is_alpha(c) THEN identifier(sc)
  ELSE IF is_digit(c) THEN scan_number(sc)
  ELSE IF c \in DOMAIN SingleCharTokens THEN scanned(sc, SingleCharTokens[c])
  ELSE IF c \in DOMAIN TwoCharTokens
    THEN IF match_char(sc, "=")
           THEN scanned(scanner_advance(sc), TwoCharTokens[c][2])
           ELSE scanned(sc, TwoCharTokens[c][1])
  ELSE IF c = "\"" THEN scan_string(sc)
  ELSE [scanner |-> sc, token |-> error_token(sc, "Unexpected character.")]

\* scan_token after skip_whitespace.
scan_token_start(sc) ==
  IF is_at_end(sc)
    THEN scanned([sc EXCEPT !.start = sc.current], "EOF")
    ELSE scan_token_char([sc EXCEPT !.start = sc.current, !.current = @ + 1],
                         ByteAt(sc, sc.current))

\* scan_token that sets start behind the test for the end of the source: the
\* EOF token begins where the token before it began.
scan_token_start_late(sc) ==
  LET s == skip_whitespace(sc)
  IN IF is_at_end(s) THEN scanned(s, "EOF") ELSE scan_token_start(s)

scan_token(sc) == scan_token_start(skip_whitespace(sc))

(***************************************************************************)
(* value.rs                                                                *)
(***************************************************************************)
Abs(i) == IF i < 0 THEN -i ELSE i

Sign(i) == IF i < 0 THEN -1 ELSE IF i > 0 THEN 1 ELSE 0

RECURSIVE Gcd(_, _)
Gcd(a, b) == IF b = 0 THEN a ELSE Gcd(b, a % b)

\* The f64 with value p/q (q = 0: inf, -inf or NaN by the sign of p).
F64(p, q) ==
  IF q = 0 THEN <<Sign(p), 0>>
  ELSE LET g == Gcd(Abs(p), Abs(q))
       IN <<(Sign(q) * p) \div g, Abs(q) \div g>>

NaN == <<0, 0>>

f64_neg(a) == <<-a[1], a[2]>>

f64_add(a, b) ==
  IF a[2] = 0 /\ b[2] = 0 THEN (IF a[1] = b[1] THEN a ELSE NaN)
  ELSE IF a[2] = 0 THEN a
  ELSE IF b[2] = 0 THEN b
  ELSE F64(a[1] * b[2] + b[1] * a[2], a[2] * b[2])

f64_sub(a, b) == f64_add(a, f64_neg(b))

f64_mul(a, b) == F64(a[1] * b[1], a[2] * b[2])

f64_div(a, b) == f64_mul(a, F64(b[2], b[1]))

f64_eq(a, b) == a # NaN /\ b # NaN /\ a = b

f64_lt(a, b) ==
  /\ a # NaN
  /\ b # NaN
  /\ IF a[2] = 0 THEN a[1] < 0 /\ b # a
     ELSE IF b[2] = 0 THEN b[1] > 0
     ELSE a[1] * b[2] < b[1] * a[2]

\* A Value: the tag t and the union as_, of which the field the tag names is set.
number(n) == [t |-> "Number", boolean |-> FALSE, number |-> n, obj |-> 0]

bool(b) == [t |-> "Bool", boolean |-> b, number |-> <<0, 1>>, obj |-> 0]

nil == [t |-> "Nil", boolean |-> FALSE, number |-> <<0, 1>>, obj |-> 0]

object(ptr) == [t |-> "Obj", boolean |-> FALSE, number |-> <<0, 1>>, obj |-> ptr]

is_bool(v) == v.t = "Bool"

is_nil(v) == v.t = "Nil"

is_number(v) == v.t = "Number"

is_object(v) == v.t = "Obj"

is_falsey(v) == is_nil(v) \/ (is_bool(v) /\ ~v.boolean)

\* ValueArray::write
write_value_array(values, value) == Append(values, value)

(***************************************************************************)
(* chunk.rs                                                                *)
(***************************************************************************)
\* The opcode bytes.  chunk.rs numbers the first seven; the remaining ones are
\* those vm.rs and debug.rs dispatch on, numbered on from there (Print_ is
\* OpCode::Print).
OpCode ==
  [Constant |-> 0, Return |-> 1, Negate |-> 2, Add |-> 3, Subtract |-> 4,
   Multiply |-> 5, Divide |-> 6, Nil |-> 7, True |-> 8, False |-> 9,
   Pop |-> 10, GetLocal |-> 11, SetLocal |-> 12, GetGlobal |-> 13,
   DefineGlobal |-> 14, SetGlobal |-> 15, Equal |-> 16, Greater |-> 17,
   Less |-> 18, Not |-> 19, Print_ |-> 20, Jump |-> 21, JumpIfFalse |-> 22,
   Loop |-> 23, Call |-> 24]

EmptyChunk == [code |-> <<>>, constants |-> <<>>, lines |-> <<>>]

\* write_chunk without the push on lines.
write_chunk_no_line(chunk, code, line) == [chunk EXCEPT !.code = Append(@, code)]

write_chunk(chunk, code, line) ==
  [chunk EXCEPT !.code = Append(@, code), !.lines = Append(@, line)]

\* Returns the chunk with the value appended; its index is add_constant_index.
add_constant(chunk, value) ==
  [chunk EXCEPT !.constants = write_value_array(@, value)]

add_constant_index(chunk, value) == Len(add_constant(chunk, value).constants) - 1

(***************************************************************************)
(* std::collections::HashMap keyed by string contents, as the sequence of  *)
(* its <<key, value>> entries in insertion order.                          *)
(***************************************************************************)
map_has(m, k) == \E i \in 1..Len(m) : m[i][1] = k

map_get(m, k) == m[CHOOSE i \in 1..Len(m) : m[i][1] = k][2]

map_insert(m, k, v) ==
  IF map_has(m, k)
    THEN [i \in 1..Len(m) |-> IF m[i][1] = k THEN <<k, v>> ELSE m[i]]
    ELSE Append(m, <<k, v>>)

(***************************************************************************)
(* object.rs                                                               *)
(***************************************************************************)
\* ObjArray: `heap` holds every object ever allocated (a pointer is an index into
\* it), `objects` is the head of the intrusive list, `strings` the intern table
\* (contents -> pointer).
ObjArray_default == [heap |-> <<>>, objects |-> 0, strings |-> <<>>]

ObjString(chars) ==
  [t |-> "String", next |-> 0, chars |-> chars, arity |-> 0,
   chunk |-> EmptyChunk, name |-> 0, function |-> ""]

ObjFunction(chunk) ==
  [t |-> "Function", next |-> 0, chars |-> "", arity |-> 0,
   chunk |-> chunk, name |-> 0, function |-> ""]

ObjNative(function) ==
  [t |-> "Native", next |-> 0, chars |-> "", arity |-> 0,
   chunk |-> EmptyChunk, name |-> 0, function |-> function]

\* alloc + ptr.write: the new object's pointer is the next heap index.
alloc(oa, obj) == [oa EXCEPT !.heap = Append(@, obj)]

\* ObjArray::write: link obj at the head of the list.
write(oa, obj) ==
  [oa EXCEPT !.heap[obj].next = oa.objects, !.objects = obj]

new_native(oa, function) ==
  LET ptr == Len(oa.heap) + 1
  IN [oa |-> write(alloc(oa, ObjNative(function)), ptr), ptr |-> ptr]

new_function(oa, chunk) ==
  LET ptr == Len(oa.heap) + 1
  IN [oa |-> write(alloc(oa, ObjFunction(chunk)), ptr), ptr |-> ptr]

\* HashMap::get on the intern table: the pointer, or null for None.
strings_get(strings, s) ==
  IF map_has(strings, s) THEN map_get(strings, s) ELSE 0

allocate_string(oa, chars) ==
  LET ptr == Len(oa.heap) + 1
      o1  == write(alloc(oa, ObjString(chars)), ptr)
  IN [oa |-> [o1 EXCEPT !.strings = map_insert(@, chars, ptr)], ptr |-> ptr]

\* copy_string without the lookup of the intern table.
copy_string_uninterned(oa, s) == allocate_string(oa, s)

copy_string(oa, s) ==
  LET interned == strings_get(oa.strings, s)
  IN IF interned # 0
       THEN [oa |-> oa, ptr |-> interned]
       ELSE allocate_string(oa, s)

\* Value::is_string, as_str: as_str reads the chars of whatever object the value
\* points to.
is_string(heap, v) == is_object(v) /\ heap[v.obj].t = "String"

is_function(heap, v) == is_object(v) /\ heap[v.obj].t = "Function"

is_native(heap, v) == is_object(v) /\ heap[v.obj].t = "Native"

as_str(heap, v) == heap[v.obj].chars

(***************************************************************************)
(* compiler.rs                                                             *)
(***************************************************************************)
Precedence ==
  [None |-> 0, Assignment |-> 1, Or |-> 2, And |-> 3, Equality |-> 4,
   Comparison |-> 5, Term |-> 6, Factor |-> 7, Unary |-> 8, Call |-> 9,
   Primary |-> 10]

TokenTypes ==
  {"LeftParen", "RightParen", "LeftBrace", "RightBrace", "Comma", "Dot",
   "Minus", "Plus", "Semicolon", "Slash", "Star", "Bang", "BangEqual",
   "Equal", "EqualEqual", "Greater", "GreaterEqual", "Less", "LessEqual",
   "Identifier", "String", "Number", "And", "Class", "Else", "False", "Fun",
   "For", "If", "Nil", "Or", "Print", "Return", "Super", "This", "True",
   "Var", "While", "Error", "EOF"}

ParseRule(prefix, infix, precedence) ==
  [prefix |-> prefix, infix |-> infix, precedence |-> precedence]

NONE_RULE == ParseRule("None", "None", Precedence.None)

rules_table ==
  [tt \in TokenTypes |->
     CASE tt = "LeftParen"    -> ParseRule("grouping", "None", Precedence.None)
       [] tt = "Minus"        -> ParseRule("unary", "binary", Precedence.Term)
       [] tt = "Plus"         -> ParseRule("None", "binary", Precedence.Term)
       [] tt = "Slash"        -> ParseRule("None", "binary", Precedence.Factor)
       [] tt = "Star"         -> ParseRule("None", "binary", Precedence.Factor)
       [] tt = "Bang"         -> ParseRule("unary", "None", Precedence.None)
       [] tt = "BangEqual"    -> ParseRule("None", "binary", Precedence.Equality)
       [] tt = "EqualEqual"   -> ParseRule("None", "binary", Precedence.Equality)
       [] tt = "Greater"      -> ParseRule("None", "binary", Precedence.Comparison)
       [] tt = "GreaterEqual" -> ParseRule("None", "binary", Precedence.Comparison)
       [] tt = "Less"         -> ParseRule("None", "binary", Precedence.Comparison)
       [] tt = "LessEqual"    -> ParseRule("None", "binary", Precedence.Comparison)
       [] tt = "Identifier"   -> ParseRule("variable", "None", Precedence.None)
       [] tt = "String"       -> ParseRule("string", "None", Precedence.None)
       [] tt = "Number"       -> ParseRule("number", "None", Precedence.None)
       [] tt = "And"          -> ParseRule("None", "and_", Precedence.And)
       [] tt = "False"        -> ParseRule("literal", "None", Precedence.None)
       [] tt = "Nil"          -> ParseRule("literal", "None", Precedence.None)
       [] tt = "Or"           -> ParseRule("None", "or_", Precedence.Or)
       [] tt = "True"         -> ParseRule("literal", "None", Precedence.None)
       [] OTHER               -> NONE_RULE]

get_rule(token_type) == rules_table[token_type]

\* The Parser (with its Compiler, chunk and obj_array) at the start of compile.
\* locals holds the local_count entries in use of the 256-entry array.
new_parser(source, chunk, obj_array) ==
  [compiler |-> [locals |-> <<>>, local_count |-> 0, scope_depth |-> 0],
   scanner |-> new_scanner(source),
   obj_array |-> obj_array,
   chunk |-> chunk,
   current |-> DefaultToken,
   previous |-> DefaultToken,
   had_error |-> FALSE,
   panic_mode |-> FALSE,
   stderr |-> <<>>]

\* error_at that reports the error without recording it in had_error.
error_at_unrecorded(p, token, message) ==
  IF p.panic_mode THEN p
  ELSE [p EXCEPT
          !.panic_mode = TRUE,
          !.stderr = Append(@, [line |-> token.line,
                                at |-> IF token.token_type = "EOF"
                                         THEN "end" ELSE token.text,
                                message |-> message])]

\* error_at without the return in panic mode.
error_at_in_panic(p, token, message) ==
  [p EXCEPT
     !.panic_mode = TRUE,
     !.had_error = TRUE,
     !.stderr = Append(@, [line |-> token.line,
                           at |-> IF token.token_type = "EOF"
                                    THEN "end" ELSE token.text,
                           message |-> message])]

\* One line of stderr: "[line N] Error at <at>: <message>".
error_at(p, token, message) ==
  IF p.panic_mode THEN p
  ELSE [p EXCEPT
          !.panic_mode = TRUE,
          !.had_error = TRUE,
          !.stderr = Append(@, [line |-> token.line,
                                at |-> IF token.token_type = "EOF"
                                         THEN "end" ELSE token.text,
                                message |-> message])]

error_at_current(p, message) == error_at(p, p.current, message)

error(p, message) == error_at(p, p.previous, message)

RECURSIVE advance_scan(_)

\* The loop of advance: r is what scan_token returned.
advance_scanned(p, r) ==
  IF r.token.token_type # "Error"
    THEN [p EXCEPT !.scanner = r.scanner, !.current = r.token]
    ELSE advance_scan(
           error_at_current(
             [p EXCEPT !.scanner = r.scanner, !.current = r.token], ""))

advance_scan(p) == advance_scanned(p, scan_token(p.scanner))

advance(p) ==
  advance_scan([p EXCEPT !.previous = p.current, !.current = DefaultToken])

check(p, token_type) == p.current.token_type = token_type

consume(p, token_type, message) ==
  IF p.current.token_type = token_type
    THEN advance(p)
    ELSE error_at_current(p, message)

\* match_token: the caller tests check(p, tt) for the result.
match_token(p, token_type) ==
  IF ~check(p, token_type) THEN p ELSE advance(p)

emit_byte(p, byte) ==
  [p EXCEPT !.chunk = write_chunk(@, byte, p.previous.line)]

emit_bytes(p, byte1, byte2) == emit_byte(emit_byte(p, byte1), byte2)

\* emit_return that emits nothing.
emit_return_nothing(p) == p

emit_return(p) == emit_byte(p, OpCode.Return)

end_compiler(p) == emit_return(p)

\* Returns the parser and the operand byte (`constant as u8`).
make_constant(p, value) ==
  LET constant == add_constant_index(p.chunk, value)
      p1 == [p EXCEPT !.chunk = add_constant(@, value)]
  IN [p |-> p1, byte |-> constant % 256]

emit_constant(p, value) ==
  LET r == make_constant(p, value)
  IN emit_bytes(r.p, OpCode.Constant, r.byte)

identifier_constant(p, name) ==
  LET r == copy_string(p.obj_array, name.text)
  IN make_constant([p EXCEPT !.obj_array = r.oa], object(r.ptr))

emit_jump(p, instruction) ==
  emit_byte(emit_byte(emit_byte(p, instruction), 255), 255)

\* The offset emit_jump returns, given the parser it returned.
emit_jump_offset(p) == Len(p.chunk.code) - 2

\* patch_jump that takes the largest 16-bit distance for too large already.
patch_jump_limit_early(p, offset) ==
  LET jump == Len(p.chunk.code) - offset - 2
      p1 == IF jump >= U16_MAX THEN error(p, "Too much code to jump over.") ELSE p
  IN [p1 EXCEPT !.chunk.code[offset + 1] = (jump \div 256) % 256,
                !.chunk.code[offset + 2] = jump % 256]

patch_jump(p, offset) ==
  LET jump == Len(p.chunk.code) - offset - 2
      p1 == IF jump > U16_MAX THEN error(p, "Too much code to jump over.") ELSE p
  IN [p1 EXCEPT !.chunk.code[offset + 1] = (jump \div 256) % 256,
                !.chunk.code[offset + 2] = jump % 256]

\* emit_loop that takes the largest 16-bit distance for too large already.
emit_loop_limit_early(p, loop_start) ==
  LET p1 == emit_byte(p, OpCode.Loop)
      offset == Len(p1.chunk.code) - loop_start + 2
      p2 == IF offset >= U16_MAX THEN error(p1, "Loop body too large.") ELSE p1
  IN emit_byte(emit_byte(p2, (offset \div 256) % 256), offset % 256)

emit_loop(p, loop_start) ==
  LET p1 == emit_byte(p, OpCode.Loop)
      offset == Len(p1.chunk.code) - loop_start + 2
      p2 == IF offset > U16_MAX THEN error(p1, "Loop body too large.") ELSE p1
  IN emit_byte(emit_byte(p2, (offset \div 256) % 256), offset % 256)

begin_scope(p) == [p EXCEPT !.compiler.scope_depth = @ + 1]

\* n times emit_byte(OpCode::Pop).
emit_code(p, n) ==
  [p EXCEPT !.chunk.code = @ \o [i \in 1..n |-> OpCode.Pop],
            !.chunk.lines = @ \o [i \in 1..n |-> p.previous.line]]

\* The loop of end_scope with >= for >: it pops the locals of the enclosing
\* scope as well.
end_scope_pop_enclosing(p) ==
  LET count == p.compiler.local_count
      kept == {i \in 1..count :
                 p.compiler.locals[i].depth < p.compiler.scope_depth}
      keep == IF kept = {} THEN 0
              ELSE CHOOSE i \in kept : \A j \in kept : j <= i
  IN [emit_code(p, count - keep) EXCEPT
        !.compiler.local_count = keep,
        !.compiler.locals = SubSeq(@, 1, keep)]

\* The while loop of end_scope: it pops the locals above the topmost one
\* whose depth is not greater than scope_depth, with one POP each.
end_scope_pop(p) ==
  LET count == p.compiler.local_count
      kept == {i \in 1..count :
                 p.compiler.locals[i].depth <= p.compiler.scope_depth}
      keep == IF kept = {} THEN 0
              ELSE CHOOSE i \in kept : \A j \in kept : j <= i
  IN [emit_code(p, count - keep) EXCEPT
        !.compiler.local_count = keep,
        !.compiler.locals = SubSeq(@, 1, keep)]

end_scope(p) == end_scope_pop([p EXCEPT !.compiler.scope_depth = @ - 1])

\* add_local that lets the count pass the size of the array before it errors.
add_local_limit_late(p, name) ==
  IF p.compiler.local_count > UINT8_COUNT
    THEN error_at(p, name, "Too many local variables in function.")
    ELSE [p EXCEPT
            !.compiler.locals = Append(@, [name |-> name, depth |-> -1]),
            !.compiler.local_count = @ + 1]

add_local(p, name) ==
  IF p.compiler.local_count = UINT8_COUNT
    THEN error_at(p, name, "Too many local variables in function.")
    ELSE [p EXCEPT
            !.compiler.locals = Append(@, [name |-> name, depth |-> -1]),
            !.compiler.local_count = @ + 1]

\* The loop of declare_variable from local i (1-based) down: it ends below
\* the topmost local of an enclosing scope, and every local it passes that
\* has the name is an error (of which error_at reports the first only).
declare_scan(p, name, i) ==
  LET outer == {j \in 1..i :
                  /\ p.compiler.locals[j].depth # -1
                  /\ p.compiler.locals[j].depth < p.compiler.scope_depth}
      stop == IF outer = {} THEN 0
              ELSE CHOOSE j \in outer : \A k \in outer : k <= j
  IN IF \E j \in (stop + 1)..i : name.text = p.compiler.locals[j].name.text
       THEN error(p, "Already variable with this name in this scope.")
       ELSE p

declare_variable(p) ==
  IF p.compiler.scope_depth = 0 THEN p
  ELSE add_local(declare_scan(p, p.previous, p.compiler.local_count), p.previous)

mark_initialized(p) ==
  [p EXCEPT !.compiler.locals[p.compiler.local_count].depth =
              p.compiler.scope_depth]

define_variable(p, global) ==
  IF p.compiler.scope_depth > 0
    THEN mark_initialized(p)
    ELSE emit_bytes(p, OpCode.DefineGlobal, global)

\* Returns the parser and the byte parse_variable returns.
parse_variable_named(p, r) ==
  [p |-> [r.p EXCEPT !.previous = p.previous], byte |-> r.byte]

parse_variable_declared(p) ==
  IF p.compiler.scope_depth > 0
    THEN [p |-> p, byte |-> 0]
    ELSE parse_variable_named(
           p, identifier_constant([p EXCEPT !.previous = DefaultToken],
                                  p.previous))

parse_variable(p, error_message) ==
  parse_variable_declared(
    declare_variable(consume(p, "Identifier", error_message)))

\* The index (0-based, as the code returns it) of the innermost local named
\* name, or -1 for None.
resolve_local_index(p, name) ==
  LET hits == {i \in 1..p.compiler.local_count :
                 p.compiler.locals[i].name.text = name.text}
  IN IF hits = {} THEN -1
     ELSE (CHOOSE i \in hits : \A j \in hits : j <= i) - 1

resolve_local(p, name) ==
  LET i == resolve_local_index(p, name)
  IN IF i >= 0 /\ p.compiler.locals[i + 1].depth = -1
       THEN error(p, "Cannot read local variable in its own initializer.")
       ELSE p

\* str::parse::<f64> of a number lexeme: digits, optionally '.' and digits.
DigitValue(c) ==
  CASE c = "0" -> 0 [] c = "1" -> 1 [] c = "2" -> 2 [] c = "3" -> 3
    [] c = "4" -> 4 [] c = "5" -> 5 [] c = "6" -> 6 [] c = "7" -> 7
    [] c = "8" -> 8 [] c = "9" -> 9

RECURSIVE parse_f64_from(_, _, _, _)
parse_f64_from(text, i, num, den) ==
  IF i > Len(text) THEN F64(num, IF den = 0 THEN 1 ELSE den)
  ELSE LET c == SubSeq(text, i, i)
       IN IF c = "." THEN parse_f64_from(text, i + 1, num, 1)
          ELSE parse_f64_from(text, i + 1, num * 10 + DigitValue(c), den * 10)

parse_f64(text) == parse_f64_from(text, 1, 0, 0)

RECURSIVE parse_precedence(_, _), infix_loop(_, _, _), call_rule(_, _, _),
          expression(_), grouping(_, _), unary(_, _), binary(_, _),
          and_(_, _), or_(_, _), variable(_, _), named_variable(_, _, _),
          declaration(_), statement(_), block(_), block_loop(_),
          var_declaration(_), for_statement(_), while_statement(_),
          if_statement(_), expression_statement(_), print_statement(_)

literal(p, can_assign) ==
  CASE p.previous.token_type = "False" -> emit_byte(p, OpCode.False)
    [] p.previous.token_type = "Nil"   -> emit_byte(p, OpCode.Nil)
    [] p.previous.token_type = "True"  -> emit_byte(p, OpCode.True)

compile_number(p, can_assign) ==
  emit_constant(p, number(parse_f64(p.previous.text)))

\* string that stores the address of the ObjString as a number constant.
compile_string_address(p, can_assign) ==
  LET text == p.previous.text
      r == copy_string(p.obj_array, SubSeq(text, 2, Len(text) - 1))
  IN emit_constant([p EXCEPT !.obj_array = r.oa], number(F64(r.ptr, 1)))

compile_string(p, can_assign) ==
  LET text == p.previous.text
      r == copy_string(p.obj_array, SubSeq(text, 2, Len(text) - 1))
  IN emit_constant([p EXCEPT !.obj_array = r.oa], object(r.ptr))

\* The prefix or infix function a ParseRule names.
call_rule(rule, p, can_assign) ==
  CASE rule = "grouping" -> grouping(p, can_assign)
    [] rule = "unary"    -> unary(p, can_assign)
    [] rule = "binary"   -> binary(p, can_assign)
    [] rule = "variable" -> variable(p, can_assign)
    [] rule = "string"   -> compile_string(p, can_assign)
    [] rule = "number"   -> compile_number(p, can_assign)
    [] rule = "and_"     -> and_(p, can_assign)
    [] rule = "or_"      -> or_(p, can_assign)
    [] rule = "literal"  -> literal(p, can_assign)

\* The body of the while loop of parse_precedence, after its advance.
infix_loop_rule(p, precedence, can_assign) ==
  IF get_rule(p.previous.token_type).infix = "None"
    THEN [p |-> error(p, "Expect expression."), returned |-> TRUE]
    ELSE infix_loop(call_rule(get_rule(p.previous.token_type).infix,
                              p, can_assign),
                    precedence, can_assign)

\* The while loop of parse_precedence; returned: the early return inside it.
infix_loop(p, precedence, can_assign) ==
  IF precedence <= get_rule(p.current.token_type).precedence
    THEN infix_loop_rule(advance(p), precedence, can_assign)
    ELSE [p |-> p, returned |-> FALSE]

\* parse_precedence after the while loop (or the return inside it).
parse_precedence_end(r, can_assign) ==
  IF r.returned THEN r.p
  ELSE IF can_assign /\ check(r.p, "Equal")
    THEN error(advance(r.p), "Invalid assignment target.")
    ELSE r.p

\* parse_precedence after its first advance.
parse_precedence_prefix(p, precedence, can_assign) ==
  IF get_rule(p.previous.token_type).prefix = "None"
    THEN error(p, "Expect expression.")
    ELSE parse_precedence_end(
           infix_loop(
             call_rule(get_rule(p.previous.token_type).prefix, p, can_assign),
             precedence, can_assign),
           can_assign)

\* parse_precedence that lets every operand take an assignment.
parse_precedence_always_assigns(p, precedence) ==
  parse_precedence_prefix(advance(p), precedence, TRUE)

parse_precedence(p, precedence) ==
  parse_precedence_prefix(advance(p), precedence,
                          precedence <= Precedence.Assignment)

expression(p) == parse_precedence(p, Precedence.Assignment)

\* end_jump is the offset the emit_jump returns.
and_(p, can_assign) ==
  patch_jump(
    parse_precedence(emit_byte(emit_jump(p, OpCode.JumpIfFalse), OpCode.Pop),
                     Precedence.And),
    emit_jump_offset(emit_jump(p, OpCode.JumpIfFalse)))

\* or_ after its two emit_jump calls, which returned else_jump and end_jump.
or_jumps(p, else_jump, end_jump) ==
  patch_jump(
    parse_precedence(emit_byte(patch_jump(p, else_jump), OpCode.Pop),
                     Precedence.Or),
    end_jump)

\* or_ that compiles its operands the way and_ does.
or_as_and(p, can_assign) == and_(p, can_assign)

or_(p, can_assign) ==
  or_jumps(emit_jump(emit_jump(p, OpCode.JumpIfFalse), OpCode.Jump),
           emit_jump_offset(emit_jump(p, OpCode.JumpIfFalse)),
           emit_jump_offset(emit_jump(emit_jump(p, OpCode.JumpIfFalse),
                                      OpCode.Jump)))

grouping(p, can_assign) ==
  consume(expression(p), "RightParen", "Expect ')' after expression.")

\* named_variable after the choice of get_op, set_op and arg.
named_variable_emit(p, get_op, set_op, arg, can_assign) ==
  IF can_assign /\ check(p, "Equal")
    THEN emit_bytes(expression(advance(p)), set_op, arg)
    ELSE emit_bytes(p, get_op, arg)

named_variable_global(r, can_assign) ==
  named_variable_emit(r.p, OpCode.GetGlobal, OpCode.SetGlobal, r.byte,
                      can_assign)

named_variable(p, name, can_assign) ==
  IF resolve_local_index(p, name) >= 0
    THEN named_variable_emit(resolve_local(p, name), OpCode.GetLocal,
                             OpCode.SetLocal,
                             resolve_local_index(p, name) % 256, can_assign)
    ELSE named_variable_global(
           identifier_constant(resolve_local(p, name), name), can_assign)

\* parser.previous is taken (left as the default token) during named_variable
\* and put back afterwards.
variable_restore(p, previous) == [p EXCEPT !.previous = previous]

variable(p, can_assign) ==
  variable_restore(
    named_variable([p EXCEPT !.previous = DefaultToken], p.previous, can_assign),
    p.previous)

unary(p, can_assign) ==
  emit_byte(parse_precedence(p, Precedence.Unary),
            CASE p.previous.token_type = "Minus" -> OpCode.Negate
              [] p.previous.token_type = "Bang"  -> OpCode.Not)

\* binary after the right operand has been compiled.
binary_operator(p, operator_type) ==
  CASE operator_type = "Plus"         -> emit_byte(p, OpCode.Add)
    [] operator_type = "Minus"        -> emit_byte(p, OpCode.Subtract)
    [] operator_type = "Star"         -> emit_byte(p, OpCode.Multiply)
    [] operator_type = "Slash"        -> emit_byte(p, OpCode.Divide)
    [] operator_type = "BangEqual"    -> emit_bytes(p, OpCode.Equal, OpCode.Not)
    [] operator_type = "EqualEqual"   -> emit_byte(p, OpCode.Equal)
    [] operator_type = "Greater"      -> emit_byte(p, OpCode.Greater)
    [] operator_type = "GreaterEqual" -> emit_bytes(p, OpCode.Less, OpCode.Not)
    [] operator_type = "Less"         -> emit_byte(p, OpCode.Less)
    [] operator_type = "LessEqual"    -> emit_bytes(p, OpCode.Greater, OpCode.Not)

\* binary that parses its right operand at the operator's own precedence.
binary_same_precedence(p, can_assign) ==
  binary_operator(
    parse_precedence(p, get_rule(p.previous.token_type).precedence),
    p.previous.token_type)

binary(p, can_assign) ==
  binary_operator(
    parse_precedence(p, get_rule(p.previous.token_type).precedence + 1),
    p.previous.token_type)

expression_statement(p) ==
  emit_byte(consume(expression(p), "Semicolon", "Expect ';' after value."),
            OpCode.Pop)

print_statement(p) ==
  emit_byte(consume(expression(p), "Semicolon", "Expect ';' after value."),
            OpCode.Print_)

var_declaration_initializer(p) ==
  IF check(p, "Equal") THEN expression(advance(p)) ELSE emit_byte(p, OpCode.Nil)

\* var_declaration after parse_variable returned r.
var_declaration_end(r) ==
  define_variable(
    consume(var_declaration_initializer(r.p), "Semicolon",
            "Expect ';' after variable declaration."),
    r.byte)

var_declaration(p) == var_declaration_end(parse_variable(p, "Expect variable name."))

block_loop(p) ==
  IF ~check(p, "RightBrace") /\ ~check(p, "EOF")
    THEN block_loop(declaration(p))
    ELSE p

block(p) == consume(block_loop(p), "RightBrace", "Expect '}' after block.")

if_statement_else(p) == IF check(p, "Else") THEN statement(advance(p)) ELSE p

\* if_statement without the POP in front of the else branch.
if_statement_then_end_no_pop(p, then_jump) ==
  patch_jump(if_statement_else(patch_jump(p, then_jump)), emit_jump_offset(p))

\* p: the parser after emit_jump(Jump), which returned else_jump.
if_statement_then_end(p, then_jump) ==
  patch_jump(if_statement_else(emit_byte(patch_jump(p, then_jump), OpCode.Pop)),
             emit_jump_offset(p))

\* p: the parser after emit_jump(JumpIfFalse), which returned then_jump.
if_statement_then(p) ==
  if_statement_then_end(
    emit_jump(statement(emit_byte(p, OpCode.Pop)), OpCode.Jump),
    emit_jump_offset(p))

if_statement(p) ==
  if_statement_then(
    emit_jump(
      consume(expression(consume(p, "LeftParen", "Expect '(' after 'if'.")),
              "RightParen", "Expect ')' after condition."),
      OpCode.JumpIfFalse))

\* p: the parser after emit_jump(JumpIfFalse), which returned exit_jump.
while_statement_body(p, loop_start) ==
  emit_byte(
    patch_jump(emit_loop(statement(emit_byte(p, OpCode.Pop)), loop_start),
               emit_jump_offset(p)),
    OpCode.Pop)

while_statement(p) ==
  while_statement_body(
    emit_jump(
      consume(expression(consume(p, "LeftParen", "Expect '(' after 'while'.")),
              "RightParen", "Expect ')' after condition."),
      OpCode.JumpIfFalse),
    Len(p.chunk.code))

\* The parts of for_statement; exit_jump is -1 for None.
for_statement_end(p, exit_jump) ==
  end_scope(IF exit_jump >= 0
              THEN emit_byte(patch_jump(p, exit_jump), OpCode.Pop)
              ELSE p)

for_statement_body(p, loop_start, exit_jump) ==
  for_statement_end(emit_loop(statement(p), loop_start), exit_jump)

\* p: the parser after emit_jump(Jump), which returned body_jump; the length of
\* its code is increment_start.
for_statement_increment(p, loop_start, exit_jump) ==
  for_statement_body(
    patch_jump(
      emit_loop(
        consume(emit_byte(expression(p), OpCode.Pop), "RightParen",
                "Expect ')' after for clauses."),
        loop_start),
      emit_jump_offset(p)),
    Len(p.chunk.code), exit_jump)

for_statement_clauses_end(p, loop_start, exit_jump) ==
  IF check(p, "RightParen")
    THEN for_statement_body(advance(p), loop_start, exit_jump)
    ELSE for_statement_increment(emit_jump(p, OpCode.Jump), loop_start, exit_jump)

\* p: the parser after emit_jump(JumpIfFalse), which returned exit_jump.
for_statement_condition_end(p, loop_start) ==
  for_statement_clauses_end(emit_byte(p, OpCode.Pop), loop_start,
                            emit_jump_offset(p))

for_statement_condition(p) ==
  IF check(p, "Semicolon")
    THEN for_statement_clauses_end(advance(p), Len(p.chunk.code), -1)
    ELSE for_statement_condition_end(
           emit_jump(
             consume(expression(p), "Semicolon",
                     "Expect ';' after loop condition."),
             OpCode.JumpIfFalse),
           Len(p.chunk.code))

for_statement_initializer(p) ==
  IF check(p, "Semicolon") THEN advance(p)
  ELSE IF check(p, "Var") THEN var_declaration(advance(p))
  ELSE expression_statement(p)

for_statement(p) ==
  for_statement_condition(
    for_statement_initializer(
      consume(begin_scope(p), "LeftParen", "Expect '(' after 'for'.")))

statement(p) ==
  IF check(p, "Print") THEN print_statement(advance(p))
  ELSE IF check(p, "If") THEN if_statement(advance(p))
  ELSE IF check(p, "While") THEN while_statement(advance(p))
  ELSE IF check(p, "For") THEN for_statement(advance(p))
  ELSE IF check(p, "LeftBrace")
    THEN end_scope(block(begin_scope(advance(p))))
  ELSE expression_statement(p)

RECURSIVE synchronize_loop(_)
synchronize_loop(p) ==
  IF p.current.token_type # "EOF"
    THEN IF p.previous.token_type = "Semicolon" THEN p
         ELSE IF p.current.token_type \in
                   {"Class", "Fun", "Var", "For", "If", "While", "Print", "Return"}
           THEN p
         ELSE synchronize_loop(advance(p))
    ELSE p

synchronize(p) == synchronize_loop([p EXCEPT !.panic_mode = FALSE])

declaration_end(p) == IF p.panic_mode THEN synchronize(p) ELSE p

declaration(p) ==
  declaration_end(IF check(p, "Var") THEN var_declaration(advance(p))
                  ELSE statement(p))

RECURSIVE compile_loop(_)
compile_loop(p) ==
  IF check(p, "EOF") THEN advance(p) ELSE compile_loop(declaration(p))

\* compile: the parser when it returns; its result is ~had_error.
compile(source, chunk, obj_array) ==
  end_compiler(compile_loop(advance(new_parser(source, chunk, obj_array))))

(***************************************************************************)
(* vm.rs: the VM as a record m.  Besides the fields of struct VM           *)
(* (obj_array is the ObjArray it borrows) m carries the local `frame` of   *)
(* run(), the two output streams, the slice the last native call was       *)
(* handed, the panic that ended the process ("" while it runs), and ret:   *)
(* the InterpretResult run() has returned ("" while it runs).              *)
(***************************************************************************)
CallFrame_default == [function |-> 0, ip |-> 0, stack_top |-> 0]

new_vm(obj_array) ==
  [stack |-> <<>>,
   stack_top |-> 0,
   obj_array |-> obj_array,
   globals |-> <<>>,
   frames |-> [i \in 1..FRAMES_MAX |-> CallFrame_default],
   frame_count |-> 0,
   frame |-> CallFrame_default,
   stdout |-> <<>>,
   stderr |-> <<>>,
   native_args |-> <<>>,
   panic |-> "",
   ret |-> ""]

running(m) == m.panic = "" /\ m.ret = ""

rust_panic(m, what) == IF running(m) THEN [m EXCEPT !.panic = what] ELSE m

\* stack is the written prefix of the array [Value::number(0.0); STACK_MAX];
\* i is a 0-based index below STACK_MAX.
stack_at(m, i) ==
  IF i >= 0 /\ i < Len(m.stack) THEN m.stack[i + 1] ELSE number(<<0, 1>>)

stack_set(stack, i, v) ==
  [j \in 1..(IF i < Len(stack) THEN Len(stack) ELSE i + 1) |->
     IF j = i + 1 THEN v
     ELSE IF j <= Len(stack) THEN stack[j]
     ELSE number(<<0, 1>>)]

push(m, value) ==
  IF ~running(m) THEN m
  ELSE IF m.stack_top >= STACK_MAX
    THEN rust_panic(m, "push: index out of bounds")
    ELSE [m EXCEPT !.stack = stack_set(@, m.stack_top, value),
                   !.stack_top = @ + 1]

\* peek: the value (stack_top - 1 - distance must not underflow: peek_check).
peek(m, distance) == stack_at(m, m.stack_top - 1 - distance)

peek_check(m, distance) ==
  IF running(m) /\ m.stack_top < distance + 1
    THEN rust_panic(m, "peek: attempt to subtract with overflow")
    ELSE m

\* pop: the VM after it; the value it returns is peek(m, 0) before it.
pop(m) ==
  IF ~running(m) THEN m
  ELSE IF m.stack_top = 0
    THEN rust_panic(m, "pop: attempt to subtract with overflow")
    ELSE [m EXCEPT !.stack_top = @ - 1]

\* CallFrame::chunk
frame_chunk(m, frame) == m.obj_array.heap[frame.function].chunk

\* read_byte: the VM after it, and the byte it returns.
read_byte(m) ==
  IF ~running(m) THEN m
  ELSE IF m.frame.ip >= Len(frame_chunk(m, m.frame).code)
    THEN rust_panic(m, "read_byte: index out of bounds")
    ELSE [m EXCEPT !.frame.ip = @ + 1]

byte_at(m, ip) ==
  LET code == frame_chunk(m, m.frame).code
  IN IF ip < Len(code) THEN code[ip + 1] ELSE 0

read_byte_value(m) == byte_at(m, m.frame.ip)

read_short(m) ==
  IF ~running(m) THEN m
  ELSE IF m.frame.ip + 1 >= Len(frame_chunk(m, m.frame).code)
    THEN rust_panic(m, "read_short: index out of bounds")
    ELSE [m EXCEPT !.frame.ip = @ + 2]

\* read_short that takes the first byte for the low one.
read_short_value_low_first(m) ==
  byte_at(m, m.frame.ip) + byte_at(m, m.frame.ip + 1) * 256

read_short_value(m) == byte_at(m, m.frame.ip) * 256 + byte_at(m, m.frame.ip + 1)

read_constant(m) ==
  LET m1 == read_byte(m)
  IN IF running(m1) /\
        read_byte_value(m) >= Len(frame_chunk(m, m.frame).constants)
       THEN rust_panic(m1, "read_constant: index out of bounds")
       ELSE m1

read_constant_value(m) ==
  LET values == frame_chunk(m, m.frame).constants
      byte == read_byte_value(m)
  IN IF byte < Len(values) THEN values[byte + 1] ELSE nil

\* One "[line N] in <function>" line of stderr.
print_frame(m, frame) ==
  LET o == m.obj_array.heap[frame.function]
      lines == o.chunk.lines
  IN [line |-> IF frame.ip >= 1 /\ frame.ip <= Len(lines)
                 THEN lines[frame.ip] ELSE -1,
      at |-> IF o.name = 0 THEN "script"
             ELSE m.obj_array.heap[o.name].chars \o "()",
      message |-> "in"]

\* runtime_error prints the message and the frames; it changes nothing else.
runtime_error(m, frame, message) ==
  IF ~running(m) THEN m
  ELSE [m EXCEPT !.stderr =
          @ \o <<[line |-> 0, at |-> "", message |-> message]>>
            \o <<print_frame(m, frame)>>
            \o [k \in 1..(m.frame_count - 1) |->
                  print_frame(m, m.frames[m.frame_count - k])]]

\* A function returning: run() its InterpretResult, call and call_value
\* "false" (they go on with ret = "" when they return true).
return_result(m, result) == IF running(m) THEN [m EXCEPT !.ret = result] ELSE m

\* Value::print (the Debug form of a value).
Display(heap, v) ==
  CASE v.t = "Bool" -> [text |-> IF v.boolean THEN "true" ELSE "false",
                        number |-> <<0, 1>>]
    [] v.t = "Nil" -> [text |-> "nil", number |-> <<0, 1>>]
    [] v.t = "Number" -> [text |-> "", number |-> v.number]
    [] v.t = "Obj" ->
         LET o == heap[v.obj]
         IN [text |->
               CASE o.t = "String" -> o.chars
                 [] o.t = "Function" ->
                      IF o.name = 0 THEN "<script>"
                      ELSE "<fn " \o heap[o.name].chars \o ">"
                 [] o.t = "Native" -> "<native fn>",
             number |-> <<0, 1>>]

\* Value::equals.  For two objects it compares as_str of both, which is only
\* defined for strings; on any other object the read is undefined behaviour and
\* ub is the outcome it has ("true", "false" or "crash").
equals_defined(heap, a, b) ==
  a.t # b.t \/ a.t # "Obj" \/ (is_string(heap, a) /\ is_string(heap, b))

\* equals without the early return on different type tags: the union is read
\* by the tag of self alone.
equals_no_tag_check(heap, a, b, ub) ==
  CASE a.t = "Bool" -> a.boolean = b.boolean
    [] a.t = "Nil" -> TRUE
    [] a.t = "Number" -> f64_eq(a.number, b.number)
    [] a.t = "Obj" ->
         IF equals_defined(heap, a, b)
           THEN as_str(heap, a) = as_str(heap, b)
           ELSE ub = "true"

equals(heap, a, b, ub) ==
  IF a.t # b.t THEN FALSE
  ELSE CASE a.t = "Bool" -> a.boolean = b.boolean
         [] a.t = "Nil" -> TRUE
         [] a.t = "Number" -> f64_eq(a.number, b.number)
         [] a.t = "Obj" ->
              IF equals_defined(heap, a, b)
                THEN as_str(heap, a) = as_str(heap, b)
                ELSE ub = "true"

\* concatenate that allocates its result without looking it up.
concatenate_uninterned(m) ==
  LET bv == peek(m, 0)
      av == peek(m, 1)
      m1 == pop(pop(m))
      result == as_str(m.obj_array.heap, av) \o as_str(m.obj_array.heap, bv)
      r == allocate_string(m1.obj_array, result)
  IN IF ~running(m1) THEN m1
     ELSE push([m1 EXCEPT !.obj_array = r.oa], object(r.ptr))

concatenate(m) ==
  LET bv == peek(m, 0)
      av == peek(m, 1)
      m1 == pop(pop(m))
      result == as_str(m.obj_array.heap, av) \o as_str(m.obj_array.heap, bv)
      r == copy_string(m1.obj_array, result)
  IN IF ~running(m1) THEN m1
     ELSE push([m1 EXCEPT !.obj_array = r.oa], object(r.ptr))

\* call with the frame limit tested one frame early.
call_limit_early(m, orig_frame, callee, arg_count) ==
  LET arity == m.obj_array.heap[callee].arity
  IN IF ~running(m) THEN m
     ELSE IF arg_count # arity
       THEN return_result(
              runtime_error(m, orig_frame, "Wrong number of arguments."),
              "false")
     ELSE IF m.frame_count >= FRAMES_MAX - 1
       THEN return_result(runtime_error(m, orig_frame, "Stack overflow."),
                          "false")
     ELSE IF m.stack_top < arg_count + 1
       THEN rust_panic(m, "call: attempt to subtract with overflow")
     ELSE [m EXCEPT
             !.frames[m.frame_count + 1] =
                [function |-> callee, ip |-> 0,
                 stack_top |-> m.stack_top - arg_count - 1],
             !.frame_count = @ + 1]

call(m, orig_frame, callee, arg_count) ==
  LET arity == m.obj_array.heap[callee].arity
  IN IF ~running(m) THEN m
     ELSE IF arg_count # arity
       THEN return_result(
              runtime_error(m, orig_frame, "Wrong number of arguments."),
              "false")
     ELSE IF m.frame_count = FRAMES_MAX
       THEN return_result(runtime_error(m, orig_frame, "Stack overflow."),
                          "false")
     ELSE IF m.stack_top < arg_count + 1
       THEN rust_panic(m, "call: attempt to subtract with overflow")
     ELSE [m EXCEPT
             !.frames[m.frame_count + 1] =
                [function |-> callee, ip |-> 0,
                 stack_top |-> m.stack_top - arg_count - 1],
             !.frame_count = @ + 1]

\* new_clock_native: the seconds elapsed, whatever the arguments.
native_result(function, arg_count, args, elapsed) == number(F64(elapsed, 1))

\* The slice &self.stack[lo..hi] (0-based, hi exclusive).
stack_slice(m, lo, hi) == [k \in 1..(hi - lo) |-> stack_at(m, lo + k - 1)]

\* The slice of the stack call_value hands to a native.
native_args_slice(m, arg_count) ==
  stack_slice(m, m.stack_top, m.stack_top + arg_count)

call_value(m, frame, callee, arg_count, elapsed) ==
  IF ~running(m) THEN m
  ELSE IF is_function(m.obj_array.heap, callee)
    THEN call(m, frame, callee.obj, arg_count)
  ELSE IF is_native(m.obj_array.heap, callee)
    THEN IF m.stack_top + arg_count > STACK_MAX
           THEN rust_panic(m, "call_value: range end index out of range")
         ELSE IF m.stack_top < arg_count + 1
           THEN rust_panic(m, "call_value: attempt to subtract with overflow")
         ELSE LET args == native_args_slice(m, arg_count)
                  result == native_result(m.obj_array.heap[callee.obj].function,
                                          arg_count, args, elapsed)
              IN push([m EXCEPT !.native_args = args,
                                !.stack_top = @ - (arg_count + 1)],
                      result)
  ELSE return_result(
         runtime_error(m, frame, "Can only call functions and classes."),
         "false")

\* std::mem::take(&mut self.frames[self.frame_count - 1]) into `frame`.
take_frame(m) ==
  IF ~running(m) THEN m
  ELSE [m EXCEPT !.frame = m.frames[m.frame_count],
                 !.frames[m.frame_count] = CallFrame_default]

define_native(m, name, function) ==
  LET r1 == copy_string(m.obj_array, name)
      m1 == push([m EXCEPT !.obj_array = r1.oa], object(r1.ptr))
      r2 == new_native(m1.obj_array, function)
      m2 == push([m1 EXCEPT !.obj_array = r2.oa], object(r2.ptr))
      m3 == [m2 EXCEPT !.globals =
               map_insert(@, as_str(m2.obj_array.heap, peek(m2, 1)), peek(m2, 0))]
  IN pop(pop(m3))

(***************************************************************************)
(* The state of one interpret(source) invocation.  pc is the position in   *)
(* interpret: "start" before compile, "compiled" before the VM is built,   *)
(* "run" inside the loop of run(), "returned" and "free_objects" before    *)
(* vm.globals.clear() and free_objects(), "done" when interpret has        *)
(* returned its result or the process has panicked (result = "Panic",      *)
(* panic the reason).  func is what compile returned (0 for None), freed   *)
(* the objects free_object has been called on, in order.  parser is the    *)
(* Parser of compile (with its Compiler and chunk), and last the most      *)
(* recent call on the ObjArray or the Parser made from outside compile and *)
(* the VM: the operation, its argument and the pointer or offset at hand.  *)
(***************************************************************************)
VARIABLES pc, source, func, result, panic,
          stack, stack_top, obj_array, globals, frames, frame_count, frame,
          stdout, stderr, native_args, freed, parser, last

vars == <<pc, source, func, result, panic,
          stack, stack_top, obj_array, globals, frames, frame_count, frame,
          stdout, stderr, native_args, freed, parser, last>>

VM ==
  [stack |-> stack, stack_top |-> stack_top, obj_array |-> obj_array,
   globals |-> globals, frames |-> frames, frame_count |-> frame_count,
   frame |-> frame, stdout |-> stdout, stderr |-> stderr,
   native_args |-> native_args, panic |-> "", ret |-> ""]

\* The next state holds the VM m; run() goes on, has returned, or panicked.
Commit(m) ==
  /\ stack' = m.stack
  /\ stack_top' = m.stack_top
  /\ obj_array' = m.obj_array
  /\ globals' = m.globals
  /\ frames' = m.frames
  /\ frame_count' = m.frame_count
  /\ frame' = m.frame
  /\ stdout' = m.stdout
  /\ stderr' = m.stderr
  /\ native_args' = m.native_args
  /\ panic' = m.panic
  /\ pc' = IF m.panic # "" THEN "done"
           ELSE IF m.ret # "" THEN "returned" ELSE "run"
  /\ result' = IF m.panic # "" THEN "Panic"
               ELSE IF m.ret # "" THEN m.ret ELSE result
  /\ UNCHANGED <<source, func, freed, parser, last>>

\* let instruction = self.read_byte(&mut frame); every chunk compile produces
\* ends in RETURN and jumps inside the code, so the read is in bounds.
Fetched == read_byte(VM)

instruction == read_byte_value(VM)

Dispatch(op) == pc = "run" /\ running(Fetched) /\ instruction = op

\* The outcomes of a read that is undefined behaviour in Value::equals.
UBOutcomes == {"true", "false", "crash"}

both_numbers(m) == is_number(peek(m, 0)) /\ is_number(peek(m, 1))

\* The VM after both operands of a binary operator have been looked at.
peek2(m) == peek_check(peek_check(m, 0), 1)

\* binary_result without the pop of the left operand.
binary_result_one_pop(m, value) == push(pop(m), value)

\* let b = self.pop(); let a = self.pop(); self.push(value);
binary_result(m, value) == push(pop(pop(m)), value)

\* The type error of a binary operator reported without the return from run().
operands_must_be_numbers_goes_on(m) ==
  runtime_error(m, m.frame, "Operands must be numbers.")

operands_must_be_numbers(m) ==
  return_result(runtime_error(m, m.frame, "Operands must be numbers."),
                "RuntimeError")

OpPrint ==
  /\ Dispatch(OpCode.Print_)
  /\ LET m == pop(Fetched)
     IN Commit(IF running(m)
                 THEN [m EXCEPT !.stdout =
                         Append(@, Display(m.obj_array.heap, peek(Fetched, 0)))]
                 ELSE m)

OpPop ==
  /\ Dispatch(OpCode.Pop)
  /\ Commit(pop(Fetched))

OpDefineGlobal ==
  /\ Dispatch(OpCode.DefineGlobal)
  /\ LET constant == read_constant_value(Fetched)
         m == peek_check(read_constant(Fetched), 0)
         value == peek(m, 0)
     IN Commit(IF running(m)
                 THEN pop([m EXCEPT !.globals =
                             map_insert(@, as_str(m.obj_array.heap, constant),
                                        value)])
                 ELSE m)

\* SetGlobal that inserts without looking the name up first.
OpSetGlobal_inserts ==
  /\ Dispatch(OpCode.SetGlobal)
  /\ LET constant == read_constant_value(Fetched)
         m == peek_check(read_constant(Fetched), 0)
         value == peek(m, 0)
         name == as_str(m.obj_array.heap, constant)
     IN Commit(IF ~running(m) THEN m
               ELSE [m EXCEPT !.globals = map_insert(@, name, value)])

OpSetGlobal ==
  /\ Dispatch(OpCode.SetGlobal)
  /\ LET constant == read_constant_value(Fetched)
         m == peek_check(read_constant(Fetched), 0)
         value == peek(m, 0)
         name == as_str(m.obj_array.heap, constant)
     IN Commit(IF ~running(m) THEN m
               ELSE IF map_has(m.globals, name)
                 THEN [m EXCEPT !.globals = map_insert(@, name, value)]
                 ELSE return_result(
                        runtime_error(m, m.frame, "Undefined variable."),
                        "RuntimeError"))

OpGetGlobal ==
  /\ Dispatch(OpCode.GetGlobal)
  /\ LET constant == read_constant_value(Fetched)
         m == read_constant(Fetched)
         name == as_str(m.obj_array.heap, constant)
     IN Commit(IF ~running(m) THEN m
               ELSE IF map_has(m.globals, name)
                 THEN push(m, map_get(m.globals, name))
                 ELSE return_result(
                        runtime_error(m, m.frame, "Undefined variable."),
                        "RuntimeError"))

OpGetLocal ==
  /\ Dispatch(OpCode.GetLocal)
  /\ LET slot == read_byte_value(Fetched)
         m == read_byte(Fetched)
     IN Commit(IF running(m) /\ m.frame.stack_top + slot >= STACK_MAX
                 THEN rust_panic(m, "GetLocal: index out of bounds")
                 ELSE push(m, stack_at(m, m.frame.stack_top + slot)))

OpSetLocal ==
  /\ Dispatch(OpCode.SetLocal)
  /\ LET slot == read_byte_value(Fetched)
         m == peek_check(read_byte(Fetched), 0)
     IN Commit(IF ~running(m) THEN m
               ELSE IF m.frame.stack_top + slot >= STACK_MAX
                 THEN rust_panic(m, "SetLocal: index out of bounds")
                 ELSE [m EXCEPT !.stack =
                         stack_set(@, m.frame.stack_top + slot, peek(m, 0))])

\* The arms of OpCode::Jump, Loop and JumpIfFalse on the VM m that has read
\* the opcode.
op_jump(m) ==
  LET offset == read_short_value(m)
      m1 == read_short(m)
  IN IF running(m1) THEN [m1 EXCEPT !.frame.ip = @ + offset] ELSE m1

op_loop(m) ==
  LET offset == read_short_value(m)
      m1 == read_short(m)
  IN IF ~running(m1) THEN m1
     ELSE IF m1.frame.ip < offset
       THEN rust_panic(m1, "Loop: attempt to subtract with overflow")
       ELSE [m1 EXCEPT !.frame.ip = @ - offset]

op_jump_if_false(m) ==
  LET offset == read_short_value(m)
      m1 == peek_check(read_short(m), 0)
  IN IF running(m1) /\ is_falsey(peek(m1, 0))
       THEN [m1 EXCEPT !.frame.ip = @ + offset]
       ELSE m1

OpJump ==
  /\ Dispatch(OpCode.Jump)
  /\ Commit(op_jump(Fetched))

OpLoop ==
  /\ Dispatch(OpCode.Loop)
  /\ Commit(op_loop(Fetched))

OpJumpIfFalse ==
  /\ Dispatch(OpCode.JumpIfFalse)
  /\ Commit(op_jump_if_false(Fetched))

\* The largest number of seconds the clock native reports.
MaxClock == 1

\* OpCode::Call that does not write the cached frame back to the frame array
\* when it has called a function.
OpCall_no_write_back ==
  /\ Dispatch(OpCode.Call)
  /\ \E elapsed \in 0..MaxClock :
       LET orig_frame == frame_count - 1
           arg_count == read_byte_value(Fetched)
           m == peek_check(read_byte(Fetched), arg_count)
           called == call_value(m, m.frame, peek(m, arg_count), arg_count,
                                elapsed)
       IN Commit(IF ~running(called)
                   THEN IF called.ret = "false"
                          THEN [called EXCEPT !.ret = "RuntimeError"]
                          ELSE called
                   ELSE IF called.frame_count > frame_count
                     THEN take_frame(called)
                     ELSE take_frame([called EXCEPT
                                        !.frames[orig_frame + 1] = called.frame]))

OpCall ==
  /\ Dispatch(OpCode.Call)
  /\ \E elapsed \in 0..MaxClock :
       LET orig_frame == frame_count - 1
           arg_count == read_byte_value(Fetched)
           m == peek_check(read_byte(Fetched), arg_count)
           called == call_value(m, m.frame, peek(m, arg_count), arg_count,
                                elapsed)
       IN Commit(IF ~running(called)
                   THEN IF called.ret = "false"
                          THEN [called EXCEPT !.ret = "RuntimeError"]
                          ELSE called
                   ELSE take_frame([called EXCEPT
                                      !.frames[orig_frame + 1] = called.frame]))

OpReturn ==
  /\ Dispatch(OpCode.Return)
  /\ LET value == peek(Fetched, 0)
         m == pop(Fetched)
         m1 == IF running(m) THEN [m EXCEPT !.frame_count = @ - 1] ELSE m
     IN Commit(IF ~running(m1) THEN m1
               ELSE IF m1.frame_count = 0
                 THEN return_result(pop(m1), "Ok")
                 ELSE take_frame(push([m1 EXCEPT !.stack_top = m1.frame.stack_top],
                                      value)))

OpConstant ==
  /\ Dispatch(OpCode.Constant)
  /\ Commit(push(read_constant(Fetched), read_constant_value(Fetched)))

OpNegate ==
  /\ Dispatch(OpCode.Negate)
  /\ LET m == peek_check(Fetched, 0)
         val == peek(m, 0)
     IN Commit(IF ~running(m) THEN m
               ELSE IF ~is_number(val)
                 THEN return_result(
                        runtime_error(m, m.frame, "Operand must be a number."),
                        "RuntimeError")
                 ELSE push(pop(m), number(f64_neg(val.number))))

OpAdd ==
  /\ Dispatch(OpCode.Add)
  /\ LET m == peek2(Fetched)
         heap == m.obj_array.heap
         a == peek(m, 1)
         b == peek(m, 0)
     IN Commit(IF ~running(m) THEN m
               ELSE IF is_string(heap, b) /\ is_string(heap, a)
                 THEN concatenate(m)
               ELSE IF is_number(b) /\ is_number(a)
                 THEN binary_result(m, number(f64_add(a.number, b.number)))
               ELSE return_result(
                      runtime_error(m, m.frame,
                        "Operands must be two numbers or two strings."),
                      "RuntimeError"))

OpSubtract ==
  /\ Dispatch(OpCode.Subtract)
  /\ LET m == peek2(Fetched)
     IN Commit(IF ~running(m) THEN m
               ELSE IF ~both_numbers(m) THEN operands_must_be_numbers(m)
               ELSE binary_result(m, number(f64_sub(peek(m, 1).number,
                                                    peek(m, 0).number))))

OpMultiply ==
  /\ Dispatch(OpCode.Multiply)
  /\ LET m == peek2(Fetched)
     IN Commit(IF ~running(m) THEN m
               ELSE IF ~both_numbers(m) THEN operands_must_be_numbers(m)
               ELSE binary_result(m, number(f64_mul(peek(m, 1).number,
                                                    peek(m, 0).number))))

OpDivide ==
  /\ Dispatch(OpCode.Divide)
  /\ LET m == peek2(Fetched)
     IN Commit(IF ~running(m) THEN m
               ELSE IF ~both_numbers(m) THEN operands_must_be_numbers(m)
               ELSE binary_result(m, number(f64_div(peek(m, 1).number,
                                                    peek(m, 0).number))))

OpNil ==
  /\ Dispatch(OpCode.Nil)
  /\ Commit(push(Fetched, nil))

OpTrue ==
  /\ Dispatch(OpCode.True)
  /\ Commit(push(Fetched, bool(TRUE)))

OpFalse ==
  /\ Dispatch(OpCode.False)
  /\ Commit(push(Fetched, bool(FALSE)))

OpEqual ==
  /\ Dispatch(OpCode.Equal)
  /\ LET m == pop(pop(Fetched))
         heap == m.obj_array.heap
         a == peek(Fetched, 1)
         b == peek(Fetched, 0)
     IN \E ub \in (IF equals_defined(heap, a, b) THEN {"true"} ELSE UBOutcomes) :
          Commit(IF ub = "crash"
                   THEN rust_panic(m, "equals: as_str of an object that is no string")
                   ELSE push(m, bool(equals(heap, a, b, ub))))

OpNot ==
  /\ Dispatch(OpCode.Not)
  /\ Commit(push(pop(Fetched), bool(is_falsey(peek(Fetched, 0)))))

OpGreater ==
  /\ Dispatch(OpCode.Greater)
  /\ LET m == peek2(Fetched)
     IN Commit(IF ~running(m) THEN m
               ELSE IF ~both_numbers(m) THEN operands_must_be_numbers(m)
               ELSE binary_result(m, bool(f64_lt(peek(m, 0).number,
                                                 peek(m, 1).number))))

OpLess ==
  /\ Dispatch(OpCode.Less)
  /\ LET m == peek2(Fetched)
     IN Commit(IF ~running(m) THEN m
               ELSE IF ~both_numbers(m) THEN operands_must_be_numbers(m)
               ELSE binary_result(m, bool(f64_lt(peek(m, 1).number,
                                                 peek(m, 0).number))))

(***************************************************************************)
(* interpret (vm.rs) and ObjArray::free_objects (object.rs)                *)
(***************************************************************************)
\* The objects free_objects walks over, in the order it frees them.
RECURSIVE free_walk(_, _)
free_walk(heap, obj) ==
  IF obj = 0 THEN <<>> ELSE <<obj>> \o free_walk(heap, heap[obj].next)

free_objects(oa) == [oa EXCEPT !.strings = <<>>, !.objects = 0]

\* interpret from `let mut vm = VM {..}` to the first statement of run(); the
\* bool vm.call returns is dropped.
build_vm(oa, function) ==
  LET m0 == define_native(new_vm(oa), "clock", "clock")
      m1 == call(push(m0, object(function)), CallFrame_default, function, 0)
  IN take_frame(IF m1.ret = "false" THEN [m1 EXCEPT !.ret = ""] ELSE m1)

\* compile(source, chunk, &mut obj_array) has returned the parser p.
\* compiler.rs returns !had_error for the chunk it filled; interpret expects
\* the script function of that chunk, Some exactly when there was no error.
Compiled(p) ==
  /\ parser' = p
  /\ stderr' = p.stderr
  /\ IF p.had_error
       THEN /\ obj_array' = p.obj_array
            /\ func' = 0
            /\ pc' = "done"
            /\ result' = "CompileError"
       ELSE /\ obj_array' = new_function(p.obj_array, p.chunk).oa
            /\ func' = new_function(p.obj_array, p.chunk).ptr
            /\ pc' = "compiled"
            /\ result' = result

Compile ==
  /\ pc = "start"
  /\ Compiled(compile(source, EmptyChunk, obj_array))
  /\ UNCHANGED <<source, panic, stack, stack_top, globals, frames, frame_count,
                 frame, stdout, native_args, freed, last>>

BuildVM ==
  /\ pc = "compiled"
  /\ Commit([build_vm(obj_array, func) EXCEPT !.stderr = stderr])

\* interpret without vm.globals.clear().
ClearGlobals_skipped ==
  /\ pc = "returned"
  /\ pc' = "free_objects"
  /\ UNCHANGED <<source, func, result, panic, stack, stack_top, obj_array,
                 globals, frames, frame_count, frame, stdout, stderr,
                 native_args, freed, parser, last>>

\* vm.globals.clear()
ClearGlobals ==
  /\ pc = "returned"
  /\ globals' = <<>>
  /\ pc' = "free_objects"
  /\ UNCHANGED <<source, func, result, panic, stack, stack_top, obj_array,
                 frames, frame_count, frame, stdout, stderr, native_args,
                 freed, parser, last>>

\* vm.obj_array.free_objects(); return result;
FreeObjects ==
  /\ pc = "free_objects"
  /\ freed' = freed \o free_walk(obj_array.heap, obj_array.objects)
  /\ obj_array' = free_objects(obj_array)
  /\ pc' = "done"
  /\ UNCHANGED <<source, func, result, panic, stack, stack_top, globals,
                 frames, frame_count, frame, stdout, stderr, native_args,
                 parser, last>>

(***************************************************************************)
(* The programs interpret is run on.                                       *)
(***************************************************************************)
\* The binary operators of the expressions 1 a 2 b 3, with their token type
\* and the instruction binary emits for them.
BinaryOperators ==
  { [text |-> "+", token_type |-> "Plus", code |-> OpCode.Add],
    [text |-> "-", token_type |-> "Minus", code |-> OpCode.Subtract],
    [text |-> "*", token_type |-> "Star", code |-> OpCode.Multiply],
    [text |-> "/", token_type |-> "Slash", code |-> OpCode.Divide],
    [text |-> "<", token_type |-> "Less", code |-> OpCode.Less],
    [text |-> "==", token_type |-> "EqualEqual", code |-> OpCode.Equal] }

binary_source(a, b) ==
  "print 1 " \o a.text \o " 2 " \o b.text \o " 3;"

BinarySources == {binary_source(a, b) : a, b \in BinaryOperators}

\* `a or b` and `a and b` for a left operand of every kind of truth; the right
\* operand is an assignment, which shows in x whether it was executed.
LeftOperands ==
  { [text |-> "true", value |-> bool(TRUE)],
    [text |-> "false", value |-> bool(FALSE)],
    [text |-> "nil", value |-> nil],
    [text |-> "1", value |-> number(<<1, 1>>)] }

logical_source(a, operator) ==
  "var x = 0; print " \o a.text \o " " \o operator \o " (x = 2); print x;"

LogicalSources ==
  {logical_source(a, operator) : a \in LeftOperands, operator \in {"or", "and"}}

\* An if statement with both branches, for a condition of every kind of truth,
\* and while statements whose body runs twice and never.
if_source(c) == "if (" \o c.text \o ") print 1; else print 2; print 3;"

ConditionSources ==
  {if_source(c) : c \in LeftOperands}
    \cup {"var i = 0; while (i < 2) i = i + 1; print i;",
          "while (false) print 1; print 2;"}

\* One statement with a type error for each binary operator on numbers.
TypeErrorSources ==
  {"print nil " \o a.text \o " 1;" :
     a \in {b \in BinaryOperators : b.code # OpCode.Equal}}
    \cup {"print 1 > nil;"}

Sources ==
  { "",
    "print 1 + 2 * 3;",
    "var a = \"hi\"; var b = \" there\"; print a + b;",
    "var x = 0; for (var i = 0; i < 3; i = i + 1) x = x + i; print x;",
    "var a = 1; { var a = 2; print a; } print a;",
    "print \"a\" == \"a\"; print 0/0 == 0/0;",
    "print undefined;",
    "undefined = 1;",
    "print -nil;",
    "print 1 + nil;",
    "print \"a\" +;",
    "var a = 1; a = a - 3; if (!(a > 0)) print -a; else print true;",
    "var i = 0; while (i < 2) i = i + 1; print i == 2 and false or nil;",
    "{ var a = 1; var b = 2; b = a; print b; }",
    "print !true == false;",
    "print ; var a = 1; print a;",
    "print nil == nil; print 0 == false; print true == false; print \"a\" == \"b\";",
    "{ var a = 1; a = 2; print a; }",
    "print \"a\" + \"b\" == \"ab\";",
    "a + b = c;", "a * b = c;", "a = b;", "a = b = c;",
    "print clock == clock;" }
  \cup BinarySources \cup TypeErrorSources \cup LogicalSources
  \cup ConditionSources

\* A chunk with the given code and constants, every byte on line 1.
assemble(code, constants) ==
  [code |-> code, constants |-> constants, lines |-> [i \in 1..Len(code) |-> 1]]

\* The function object of a `fun name(..arity..) { body }` declaration: its
\* name is interned first (the constant of the global it defines).
declared_function(oa, name, arity, body) ==
  LET n == copy_string(oa, name)
      f == new_function(n.oa, body)
  IN [oa |-> [f.oa EXCEPT !.heap[f.ptr].arity = arity,
                          !.heap[f.ptr].name = n.ptr],
      ptr |-> f.ptr, name |-> n.ptr]

\* What compile returns for programs that declare or call functions, which
\* compiler.rs does not parse: the script's function and the heap it is in.
\* A function body ends in the implicit NIL, RETURN; the script ends as
\* end_compiler ends it.
RecursionProgram ==
  LET f == declared_function(ObjArray_default, "f", 0,
             assemble(<<OpCode.GetGlobal, 0, OpCode.Call, 0, OpCode.Pop,
                        OpCode.Nil, OpCode.Return>>, <<object(1)>>))
      s == new_function(f.oa,
             assemble(<<OpCode.Constant, 1, OpCode.DefineGlobal, 0,
                        OpCode.GetGlobal, 2, OpCode.Call, 0, OpCode.Pop,
                        OpCode.Return>>,
                      <<object(f.name), object(f.ptr), object(f.name)>>))
  IN [source |-> "fun f() { f(); } f();", oa |-> s.oa, func |-> s.ptr]

IdentityProgram ==
  LET f == declared_function(ObjArray_default, "id", 1,
             assemble(<<OpCode.GetLocal, 1, OpCode.Return,
                        OpCode.Nil, OpCode.Return>>, <<>>))
      s == new_function(f.oa,
             assemble(<<OpCode.Constant, 1, OpCode.DefineGlobal, 0,
                        OpCode.GetGlobal, 2, OpCode.Constant, 3,
                        OpCode.Call, 1, OpCode.Print_, OpCode.Return>>,
                      <<object(f.name), object(f.ptr), object(f.name),
                        number(<<3, 1>>)>>))
  IN [source |-> "fun id(x) { return x; } print id(3);",
      oa |-> s.oa, func |-> s.ptr]

ArityProgram ==
  LET f == declared_function(ObjArray_default, "f", 0,
             assemble(<<OpCode.Nil, OpCode.Return>>, <<>>))
      s == new_function(f.oa,
             assemble(<<OpCode.Constant, 1, OpCode.DefineGlobal, 0,
                        OpCode.GetGlobal, 2, OpCode.Constant, 3,
                        OpCode.Call, 1, OpCode.Pop, OpCode.Return>>,
                      <<object(f.name), object(f.ptr), object(f.name),
                        number(<<1, 1>>)>>))
  IN [source |-> "fun f() {} f(1);", oa |-> s.oa, func |-> s.ptr]

ClockProgram ==
  LET n == copy_string(ObjArray_default, "clock")
      s == new_function(n.oa,
             assemble(<<OpCode.GetGlobal, 0, OpCode.Constant, 1,
                        OpCode.Constant, 2, OpCode.Call, 2, OpCode.Print_,
                        OpCode.Return>>,
                      <<object(n.ptr), number(<<7, 1>>), number(<<8, 1>>)>>))
  IN [source |-> "print clock(7, 8);", oa |-> s.oa, func |-> s.ptr]

NotCallableProgram ==
  LET s == new_function(ObjArray_default,
             assemble(<<OpCode.Nil, OpCode.Call, 0, OpCode.Pop,
                        OpCode.Return>>, <<>>))
  IN [source |-> "nil();", oa |-> s.oa, func |-> s.ptr]

Assembled ==
  { RecursionProgram, IdentityProgram, ArityProgram, ClockProgram,
    NotCallableProgram }

\* The chunk of "nil == (nil == ( ... == nil));" with n operands: n times NIL,
\* n - 1 times EQUAL, then the POP of the expression statement and RETURN.
nested_nil_chunk(n) ==
  assemble([i \in 1..(2 * n + 1) |->
              IF i <= n THEN OpCode.Nil
              ELSE IF i < 2 * n THEN OpCode.Equal
              ELSE IF i = 2 * n THEN OpCode.Pop
              ELSE OpCode.Return],
           <<>>)

\* The VM inside run() on nested_nil_chunk(n) when the first k of its NILs
\* have been executed: they lie above the script function.
nested_nil_vm(n, k) ==
  LET f == new_function(ObjArray_default, nested_nil_chunk(n))
      m == build_vm(f.oa, f.ptr)
  IN [m EXCEPT !.stack = [i \in 1..(k + 1) |->
                            IF i = 1 THEN object(f.ptr) ELSE nil],
               !.stack_top = k + 1,
               !.frame.ip = k]

\* The nesting that fills the value stack: the script function and STACK_MAX - 1
\* operands lie on it before the last NIL is executed.
DeepNesting == STACK_MAX

\* The state of every variable the program at hand does not set.
InitDefault ==
  /\ result = "None"
  /\ panic = ""
  /\ freed = <<>>
  /\ last = [op |-> "", arg |-> "", ptr |-> 0]

InitVM(m) ==
  /\ stack = m.stack
  /\ stack_top = m.stack_top
  /\ globals = m.globals
  /\ frames = m.frames
  /\ frame_count = m.frame_count
  /\ frame = m.frame
  /\ stdout = m.stdout
  /\ stderr = m.stderr
  /\ native_args = m.native_args

\* interpret(source) is called.
InitSource ==
  /\ pc = "start"
  /\ source \in Sources
  /\ func = 0
  /\ obj_array = ObjArray_default
  /\ parser = new_parser(source, EmptyChunk, ObjArray_default)
  /\ InitVM(new_vm(ObjArray_default))

\* compile has returned the function of a program with functions or calls.
InitAssembled ==
  \E program \in Assembled :
    /\ pc = "compiled"
    /\ source = program.source
    /\ func = program.func
    /\ obj_array = program.oa
    /\ parser = new_parser(program.source, EmptyChunk, ObjArray_default)
    /\ InitVM(new_vm(ObjArray_default))

\* run() is one instruction before the NIL that finds the value stack full, in
\* the expression statement whose operands nest DeepNesting deep.
InitDeep ==
  /\ pc = "run"
  /\ source = "nil == (nil == ( ... == nil));"
  /\ func = 1
  /\ obj_array = nested_nil_vm(DeepNesting, DeepNesting - 2).obj_array
  /\ parser = new_parser(source, EmptyChunk, ObjArray_default)
  /\ InitVM(nested_nil_vm(DeepNesting, DeepNesting - 2))

Init == InitDefault /\ (InitSource \/ InitAssembled \/ InitDeep)

Next ==
  \/ Compile
  \/ BuildVM
  \/ OpPrint
  \/ OpPop
  \/ OpDefineGlobal
  \/ OpSetGlobal
  \/ OpGetGlobal
  \/ OpGetLocal
  \/ OpSetLocal
  \/ OpJump
  \/ OpLoop
  \/ OpJumpIfFalse
  \/ OpCall
  \/ OpReturn
  \/ OpConstant
  \/ OpNegate
  \/ OpAdd
  \/ OpSubtract
  \/ OpMultiply
  \/ OpDivide
  \/ OpNil
  \/ OpTrue
  \/ OpFalse
  \/ OpEqual
  \/ OpNot
  \/ OpGreater
  \/ OpLess
  \/ ClearGlobals
  \/ FreeObjects

Spec == Init /\ [][Next]_vars

(***************************************************************************)
(* The ObjArray on its own: any sequence of its three allocating calls.    *)
(***************************************************************************)
\* The most objects the sequences allocate, and the contents they intern.
MaxObjects == 4

InternStrings == {"", "a", "b", "ab"}

InitObjArray ==
  /\ InitDefault
  /\ pc = "obj_array"
  /\ source = ""
  /\ func = 0
  /\ obj_array = ObjArray_default
  /\ parser = new_parser("", EmptyChunk, ObjArray_default)
  /\ InitVM(new_vm(ObjArray_default))

\* The ObjArray call op(arg) has returned r.
ObjArrayCall(op, arg, r) ==
  /\ pc = "obj_array"
  /\ Len(r.oa.heap) <= MaxObjects
  /\ obj_array' = r.oa
  /\ last' = [op |-> op, arg |-> arg, ptr |-> r.ptr]
  /\ UNCHANGED <<pc, source, func, result, panic, stack, stack_top, globals,
                 frames, frame_count, frame, stdout, stderr, native_args,
                 freed, parser>>

CopyString ==
  \E s \in InternStrings :
    ObjArrayCall("copy_string", s, copy_string(obj_array, s))

NewFunction ==
  ObjArrayCall("new_function", "", new_function(obj_array, EmptyChunk))

NewNative ==
  ObjArrayCall("new_native", "clock", new_native(obj_array, "clock"))

NextObjArray == CopyString \/ NewFunction \/ NewNative

SpecObjArray == InitObjArray /\ [][NextObjArray]_vars

(***************************************************************************)
(* The compiler's constant pool on its own: emit_constant, called as the   *)
(* number and string rules call it, once per literal of a program.         *)
(***************************************************************************)
\* The most literals the program has.
MaxConstants == UINT8_COUNT + 2

InitCompiler ==
  /\ InitDefault
  /\ pc = "compile"
  /\ source = ""
  /\ func = 0
  /\ obj_array = ObjArray_default
  /\ parser = new_parser("", EmptyChunk, ObjArray_default)
  /\ InitVM(new_vm(ObjArray_default))

\* The k-th literal of the program (from 0) is the number k.
EmitConstant ==
  /\ pc = "compile"
  /\ Len(parser.chunk.constants) < MaxConstants
  /\ parser' = emit_constant(parser,
                             number(F64(Len(parser.chunk.constants), 1)))
  /\ UNCHANGED <<pc, source, func, result, panic, stack, stack_top, obj_array,
                 globals, frames, frame_count, frame, stdout, stderr,
                 native_args, freed, last>>

NextCompiler == EmitConstant

SpecCompiler == InitCompiler /\ [][NextCompiler]_vars

(***************************************************************************)
(* The compiler's jumps on their own: emit_jump ... patch_jump as           *)
(* if_statement, and_, or_ and the loops call them around the code of a    *)
(* statement or operand, and emit_loop after the code of a loop.  last is  *)
(* the jump or loop begun or ended last: its offset or loop_start.         *)
(***************************************************************************)
\* The bytes of code a statement between the jump instructions compiles to:
\* one, or a long run that brings the distance to the limit of 16 bits.
CodeSizes == {1, U16_MAX - 3, U16_MAX}

\* The most code emitted before the long run of a chunk, and in all.
MaxSmall == 4

MaxCode == U16_MAX + 6

InitJumps ==
  /\ InitDefault
  /\ pc = "jumps"
  /\ source = ""
  /\ func = 0
  /\ obj_array = ObjArray_default
  /\ parser = new_parser("", EmptyChunk, ObjArray_default)
  /\ InitVM(new_vm(ObjArray_default))

\* The parser call op has returned p; ptr is the offset or loop_start at hand.
JumpsCall(op, ptr, p) ==
  /\ pc = "jumps"
  /\ Len(p.chunk.code) <= MaxCode
  /\ Len(p.chunk.code) <= MaxSmall \/ Len(p.chunk.code) >= U16_MAX - 3
  /\ parser' = p
  /\ last' = [op |-> op, arg |-> "", ptr |-> ptr]
  /\ UNCHANGED <<pc, source, func, result, panic, stack, stack_top, obj_array,
                 globals, frames, frame_count, frame, stdout, stderr,
                 native_args, freed>>

\* One jump or loop is followed through each chunk.
jump_begun == last.op # ""

jump_ended == last.op \in {"patch_jump", "emit_loop"}

EmitJump ==
  /\ ~jump_begun
  /\ \E op \in {OpCode.Jump, OpCode.JumpIfFalse} :
       JumpsCall("emit_jump", emit_jump_offset(emit_jump(parser, op)),
                 emit_jump(parser, op))

\* let loop_start = self.chunk.code.len();
LoopStart ==
  /\ ~jump_begun
  /\ JumpsCall("loop_start", Len(parser.chunk.code), parser)

EmitCode ==
  /\ ~jump_ended
  /\ \E n \in CodeSizes : JumpsCall(last.op, last.ptr, emit_code(parser, n))

\* A parse error in the code between the jump instructions.
ErrorInCode ==
  /\ ~jump_ended
  /\ ~parser.panic_mode
  /\ JumpsCall(last.op, last.ptr, error_at_current(parser, "Expect expression."))

PatchJump ==
  /\ last.op = "emit_jump"
  /\ JumpsCall("patch_jump", last.ptr, patch_jump(parser, last.ptr))

EmitLoop ==
  /\ last.op = "loop_start"
  /\ JumpsCall("emit_loop", last.ptr, emit_loop(parser, last.ptr))

NextJumps ==
  \/ EmitJump
  \/ LoopStart
  \/ EmitCode
  \/ ErrorInCode
  \/ PatchJump
  \/ EmitLoop

SpecJumps == InitJumps /\ [][NextJumps]_vars

(***************************************************************************)
(* The compiler's locals on their own: a block that declares one local     *)
(* after the other, `{ var v0; var v1; ...`, and then reads one of them or *)
(* ends.  last is the statement compiled last: for a declaration the       *)
(* number of declarations so far, for a read the local read.               *)
(***************************************************************************)
\* The identifier token of the k-th local of the block.
local_name(k) ==
  [token_type |-> "Identifier", text |-> "v" \o ToString(k), line |-> 1]

InitLocals ==
  /\ InitDefault
  /\ pc = "locals"
  /\ source = ""
  /\ func = 0
  /\ obj_array = ObjArray_default
  /\ parser = new_parser("", EmptyChunk, ObjArray_default)
  /\ InitVM(new_vm(ObjArray_default))

\* The parser call op has returned p.
LocalsCall(op, arg, ptr, p) ==
  /\ pc = "locals"
  /\ parser' = p
  /\ last' = [op |-> op, arg |-> arg, ptr |-> ptr]
  /\ UNCHANGED <<pc, source, func, result, panic, stack, stack_top, obj_array,
                 globals, frames, frame_count, frame, stdout, stderr,
                 native_args, freed>>

BeginBlock ==
  /\ last.op = ""
  /\ LocalsCall("begin_scope", "", 0, begin_scope(parser))

\* var_declaration of `var v<k>;` in the block: parse_variable has consumed
\* the identifier, there is no initializer.
VarDeclaration ==
  /\ last.op \in {"begin_scope", "var_declaration"}
  /\ ~parser.had_error
  /\ LocalsCall("var_declaration", local_name(last.ptr).text, last.ptr + 1,
                define_variable(
                  emit_byte(
                    declare_variable(
                      [parser EXCEPT !.previous = local_name(last.ptr)]),
                    OpCode.Nil),
                  0))

\* The expression v<k> for the first or the last local declared.
ReadLocal ==
  /\ last.op = "var_declaration"
  /\ \E k \in {0, parser.compiler.local_count - 1} :
       LocalsCall("named_variable", local_name(k).text, k,
                  named_variable(parser, local_name(k), FALSE))

EndBlock ==
  /\ last.op = "var_declaration"
  /\ LocalsCall("end_scope", "", last.ptr, end_scope(parser))

NextLocals ==
  \/ BeginBlock
  \/ VarDeclaration
  \/ ReadLocal
  \/ EndBlock

SpecLocals == InitLocals /\ [][NextLocals]_vars

(***************************************************************************)
(* The compiler's scopes on their own: blocks nested up to MaxScopeDepth   *)
(* with declarations `var a;`, `var a = b;` and reads `a;` of the names of *)
(* ScopeNames, cut off at MaxScopeCode bytes of code.  The source is empty *)
(* and stands at EOF: each action is the part of a production that works   *)
(* on the locals.  last.ptr is scope_depth and local_count at each         *)
(* begin_scope that has not ended yet, innermost last.                     *)
(***************************************************************************)
MaxScopeDepth == 2
MaxScopeCode == 5
ScopeNames == {"a", "b"}

scope_name(name) == [token_type |-> "Identifier", text |-> name, line |-> 1]

\* The top local is declared and not yet defined.
in_initializer(p) ==
  /\ p.compiler.local_count > 0
  /\ p.compiler.locals[p.compiler.local_count].depth = -1

InitScopes ==
  /\ pc = "scopes"
  /\ source = ""
  /\ func = 0
  /\ result = "None"
  /\ panic = ""
  /\ freed = <<>>
  /\ last = [op |-> "", arg |-> "", ptr |-> <<>>]
  /\ obj_array = ObjArray_default
  /\ parser = advance(new_parser("", EmptyChunk, ObjArray_default))
  /\ InitVM(new_vm(ObjArray_default))

\* The parser call op with the name arg has returned p.
ScopesCall(op, arg, ptr, p) ==
  /\ pc = "scopes"
  /\ Len(p.chunk.code) <= MaxScopeCode
  /\ parser' = p
  /\ last' = [op |-> op, arg |-> arg, ptr |-> ptr]
  /\ UNCHANGED <<pc, source, func, result, panic, stack, stack_top, obj_array,
                 globals, frames, frame_count, frame, stdout, stderr,
                 native_args, freed>>

\* `{`: self.begin_scope();
BeginScope ==
  /\ last.op \notin {"declare_variable", "initializer"}
  /\ parser.compiler.scope_depth < MaxScopeDepth
  /\ ScopesCall("begin_scope", "",
                Append(last.ptr,
                       [scope_depth |-> parser.compiler.scope_depth,
                        local_count |-> parser.compiler.local_count]),
                begin_scope(parser))

\* `var name`: parse_variable has consumed the identifier and calls
\* declare_variable.
DeclareVariable ==
  /\ last.op \notin {"declare_variable", "initializer"}
  /\ \E name \in ScopeNames :
       ScopesCall("declare_variable", name, last.ptr,
                  declare_variable([parser EXCEPT !.previous = scope_name(name)]))

\* The initializer: none (NIL), or the variable `name`.
Initializer ==
  /\ last.op = "declare_variable"
  /\ \/ ScopesCall("initializer", "", last.ptr, emit_byte(parser, OpCode.Nil))
     \/ \E name \in ScopeNames :
          ScopesCall("initializer", name, last.ptr,
                     variable([parser EXCEPT !.previous = scope_name(name)],
                              FALSE))

\* `;`: self.define_variable(global), and declaration() synchronizes.
DefineVariable ==
  /\ last.op = "initializer"
  /\ ScopesCall("define_variable", "", last.ptr,
                declaration_end(define_variable(parser, 0)))

\* The expression statement `name;`.
ReadVariable ==
  /\ last.op \notin {"declare_variable", "initializer"}
  /\ \E name \in ScopeNames :
       ScopesCall("expression_statement", name, last.ptr,
                  declaration_end(
                    emit_byte(
                      variable([parser EXCEPT !.previous = scope_name(name)],
                               FALSE),
                      OpCode.Pop)))

\* `}`: self.end_scope();
EndScope ==
  /\ last.op \notin {"declare_variable", "initializer"}
  /\ parser.compiler.scope_depth > 0
  /\ ScopesCall("end_scope", "", SubSeq(last.ptr, 1, Len(last.ptr) - 1),
                end_scope(parser))

NextScopes ==
  \/ BeginScope
  \/ DeclareVariable
  \/ Initializer
  \/ DefineVariable
  \/ ReadVariable
  \/ EndScope

SpecScopes == InitScopes /\ [][NextScopes]_vars

(***************************************************************************)
(* The scanner on its own: scan_token after scan_token over a source that  *)
(* holds one identifier-shaped lexeme, last.arg, behind a head and in      *)
(* front of a tail.  last.ptr counts the tokens scanned.                   *)
(***************************************************************************)
Keywords ==
  {"and", "class", "else", "false", "for", "fun", "if", "nil", "or", "print",
   "return", "super", "this", "true", "var", "while"}

\* The keywords, what is left of each when it is cut short, and each with its
\* last letter changed, with a letter, digit or underscore more, with an
\* underscore in front, and with a capital.
Lexemes ==
  Keywords
    \cup UNION {{SubSeq(k, 1, n) : n \in 1..Len(k)} : k \in Keywords}
    \cup {SubSeq(k, 1, Len(k) - 1) \o "x" : k \in Keywords}
    \cup {k \o c : k \in Keywords, c \in {"x", "1", "_"}}
    \cup {"_" \o k : k \in Keywords}
    \cup {"And", "For", "True", "fa", "fu", "thus", "tr", "fx", "tx", "x", "_"}

LexemeHeads == {"", "x ", "1+"}
LexemeTails == {"", ";", " x"}

\* The tokens in front of the lexeme.
head_tokens(head) == IF head = "" THEN 0 ELSE IF head = "x " THEN 1 ELSE 2

InitScanner ==
  /\ pc = "scanner"
  /\ \E lexeme \in Lexemes, head \in LexemeHeads, tail \in LexemeTails :
       /\ source = head \o lexeme \o tail
       /\ last = [op |-> head, arg |-> lexeme, ptr |-> 0]
  /\ func = 0
  /\ result = "None"
  /\ panic = ""
  /\ freed = <<>>
  /\ obj_array = ObjArray_default
  /\ parser = new_parser(source, EmptyChunk, ObjArray_default)
  /\ InitVM(new_vm(ObjArray_default))

\* self.current = self.scanner.scan_token(); r is what scan_token returned.
Scanned(r) ==
  /\ parser' = [parser EXCEPT !.scanner = r.scanner, !.current = r.token]
  /\ last' = [last EXCEPT !.ptr = @ + 1]
  /\ UNCHANGED <<pc, source, func, result, panic, stack, stack_top, obj_array,
                 globals, frames, frame_count, frame, stdout, stderr,
                 native_args, freed>>

ScanToken ==
  /\ pc = "scanner"
  /\ last.ptr = 0 \/ parser.current.token_type # "EOF"
  /\ Scanned(scan_token(parser.scanner))

SpecScanner == InitScanner /\ [][ScanToken]_vars

(***************************************************************************)
(* interpret with free_objects statement by statement: self.strings.clear() *)
(* at "free_objects", then at "free_loop" one free_object per turn of the  *)
(* loop, and `self.objects = null` after it.                               *)
(***************************************************************************)
\* `obj` of the loop of free_objects: the head of the list before the first
\* turn, then the `next` read from the object freed last.
free_cursor ==
  IF freed = <<>> THEN obj_array.objects
  ELSE obj_array.heap[freed[Len(freed)]].next

\* self.strings.clear(); let mut obj = self.objects;
ClearStrings ==
  /\ pc = "free_objects"
  /\ obj_array' = [obj_array EXCEPT !.strings = <<>>]
  /\ pc' = "free_loop"
  /\ UNCHANGED <<source, func, result, panic, stack, stack_top, globals,
                 frames, frame_count, frame, stdout, stderr, native_args,
                 freed, parser, last>>

\* let next = (*obj).next; self.free_object(obj); obj = next;
FreeObject ==
  /\ pc = "free_loop"
  /\ free_cursor # 0
  /\ freed' = Append(freed, free_cursor)
  /\ UNCHANGED <<pc, source, func, result, panic, stack, stack_top, obj_array,
                 globals, frames, frame_count, frame, stdout, stderr,
                 native_args, parser, last>>

\* self.objects = null; return result;
FreedAll ==
  /\ pc = "free_loop"
  /\ free_cursor = 0
  /\ obj_array' = [obj_array EXCEPT !.objects = 0]
  /\ pc' = "done"
  /\ UNCHANGED <<source, func, result, panic, stack, stack_top, globals,
                 frames, frame_count, frame, stdout, stderr, native_args,
                 freed, parser, last>>

NextShutdown ==
  \/ Compile
  \/ BuildVM
  \/ OpPrint
  \/ OpPop
  \/ OpDefineGlobal
  \/ OpSetGlobal
  \/ OpGetGlobal
  \/ OpGetLocal
  \/ OpSetLocal
  \/ OpJump
  \/ OpLoop
  \/ OpJumpIfFalse
  \/ OpCall
  \/ OpReturn
  \/ OpConstant
  \/ OpNegate
  \/ OpAdd
  \/ OpSubtract
  \/ OpMultiply
  \/ OpDivide
  \/ OpNil
  \/ OpTrue
  \/ OpFalse
  \/ OpEqual
  \/ OpNot
  \/ OpGreater
  \/ OpLess
  \/ ClearGlobals
  \/ ClearStrings
  \/ FreeObject
  \/ FreedAll

SpecShutdown == Init /\ [][NextShutdown]_vars

(***************************************************************************)
(* The Parser between the first advance of compile and its end_compiler.   *)
(* Declaration is one turn of the loop of compile.  For the sources of     *)
(* ErrorSources the calls inside a declaration are followed one by one     *)
(* instead: advance, the report of an error by a production (error or      *)
(* error_at_current), and synchronize in two steps, its first statement    *)
(* and then its loop.                                                      *)
(***************************************************************************)
ErrorSources ==
  { "print + 1 @ 2; print 3;",
    "1 = 2 \"a",
    "var 1; + print 2;",
    "print 1 1 1; var;",
    "{ print 1;" }

\* The reports of errors by productions that are followed in one Parser.
MaxErrors == 2

InitErrors ==
  /\ InitDefault
  /\ pc = "errors"
  /\ source \in Sources \cup ErrorSources
  /\ func = 0
  /\ obj_array = ObjArray_default
  /\ parser = advance(new_parser(source, EmptyChunk, ObjArray_default))
  /\ InitVM(new_vm(ObjArray_default))

\* The parser call op has returned p; last.ptr counts the errors productions
\* have reported.
ErrorsCall(op, ptr, p) ==
  /\ pc = "errors"
  /\ parser' = p
  /\ last' = [op |-> op, arg |-> "", ptr |-> ptr]
  /\ UNCHANGED <<pc, source, func, result, panic, stack, stack_top, obj_array,
                 globals, frames, frame_count, frame, stdout, stderr,
                 native_args, freed>>

\* while !parser.match_token(TokenType::EOF) { parser.declaration(); }
Declaration ==
  /\ last.op \in {"", "declaration"}
  /\ ~check(parser, "EOF")
  /\ ErrorsCall("declaration", last.ptr, declaration(parser))

Advance ==
  /\ source \in ErrorSources
  /\ ~check(parser, "EOF")
  /\ ErrorsCall(IF last.op = "synchronize" THEN last.op ELSE "advance",
                last.ptr, advance(parser))

\* self.error(message) or self.error_at_current(message) of a production.
ReportError ==
  /\ source \in ErrorSources
  /\ last.op # "synchronize"
  /\ last.ptr < MaxErrors
  /\ \/ ErrorsCall("error", last.ptr + 1, error(parser, "Expect expression."))
     \/ ErrorsCall("error_at_current", last.ptr + 1,
                   error_at_current(parser, "Expect ';' after value."))

\* if self.panic_mode { self.synchronize(); }: self.panic_mode = false;
SynchronizeBegin ==
  /\ source \in ErrorSources
  /\ last.op # "synchronize"
  /\ parser.panic_mode
  /\ ErrorsCall("synchronize", last.ptr, [parser EXCEPT !.panic_mode = FALSE])

\* The loop of synchronize has returned (Advance is its self.advance()).
SynchronizeEnd ==
  /\ last.op = "synchronize"
  /\ synchronize_loop(parser) = parser
  /\ ErrorsCall("synchronized", last.ptr, parser)

NextErrors ==
  \/ Declaration
  \/ Advance
  \/ ReportError
  \/ SynchronizeBegin
  \/ SynchronizeEnd

SpecErrors == InitErrors /\ [][NextErrors]_vars

(***************************************************************************)
(* Runs of compile on one source text.  What differs from one run to the   *)
(* next is the ObjArray compile is handed: the addresses its allocations   *)
(* get (here: how many objects were allocated before) and the strings that *)
(* are interned already.                                                   *)
(***************************************************************************)
ObjArrays ==
  { ObjArray_default,
    copy_string(ObjArray_default, "hi").oa,
    copy_string(copy_string(ObjArray_default, "zz").oa, "a").oa }

InitRuns ==
  /\ InitDefault
  /\ pc = "runs"
  /\ source \in Sources
  /\ func = 0
  /\ obj_array = ObjArray_default
  /\ parser = new_parser(source, EmptyChunk, ObjArray_default)
  /\ InitVM(new_vm(ObjArray_default))

\* compile(source, chunk, oa) has returned with the parser p; last.ptr is the
\* number of objects of the ObjArray of the run before.
CompileReturned(p) ==
  /\ parser' = p
  /\ obj_array' = p.obj_array
  /\ last' = [op |-> "compile", arg |-> source,
              ptr |-> Len(parser.obj_array.heap)]

CompileRun ==
  /\ pc = "runs"
  /\ \E oa \in ObjArrays : CompileReturned(compile(source, EmptyChunk, oa))
  /\ UNCHANGED <<pc, source, func, result, panic, stack, stack_top, globals,
                 frames, frame_count, frame, stdout, stderr, native_args,
                 freed>>

NextRuns == CompileRun

SpecRuns == InitRuns /\ [][NextRuns]_vars

(***************************************************************************)
(* Properties                                                              *)
(***************************************************************************)
\* The messages runtime_error and error_at have written to stderr.
Messages == {stderr[i].message : i \in DOMAIN stderr}

\* The objects on the intrusive list, from its head.
Listed == free_walk(obj_array.heap, obj_array.objects)

\* How often x occurs in the sequence seq.
Count(seq, x) == Cardinality({i \in DOMAIN seq : seq[i] = x})

\* interpret has returned one of its three results.
Returned(r) == pc = "done" /\ result = r

\* C1: when interpret returns Ok for a program that compiled, run() has left
\* the value stack empty and no frame, and the RETURN that end_compiler emits
\* last does not pop below the bottom of the stack.
C1_OkLeavesStackEmpty ==
  /\ Returned("Ok") => stack_top = 0 /\ frame_count = 0
  /\ (func # 0 /\ frame_count = 0)
       => panic # "pop: attempt to subtract with overflow"

\* C2: the slot of a GET_LOCAL or SET_LOCAL the compiler emitted is the stack
\* slot of the variable in the frame, never slot 0 where the callee lies, so
\* the program that shadows a global by a local prints 2 and then 1.
C2_LocalIsItsSlot ==
  /\ (source \in Sources /\ Dispatch(OpCode.GetLocal))
       => read_byte_value(Fetched) # 0
  /\ (source \in Sources /\ Dispatch(OpCode.SetLocal))
       => read_byte_value(Fetched) # 0
  /\ (source = "var a = 1; { var a = 2; print a; } print a;" /\ pc = "done")
       => stdout = <<Display(obj_array.heap, number(<<2, 1>>)),
                     Display(obj_array.heap, number(<<1, 1>>))>>

\* C3: when interpret returns Ok, CompileError or RuntimeError, every object
\* allocated during the invocation has been freed exactly once; until then
\* every object is on the object list exactly once.
C3_EveryObjectFreedOnce ==
  /\ pc \in {"start", "compiled", "run", "returned", "free_objects"}
       => \A o \in DOMAIN obj_array.heap : Count(Listed, o) = 1
  /\ (Returned("Ok") \/ Returned("CompileError") \/ Returned("RuntimeError"))
       => \A o \in DOMAIN obj_array.heap : Count(freed, o) = 1

\* copy_string(s) on the ObjArray at hand returns the String with contents s
\* when there is one and leaves the ObjArray alone; otherwise it allocates
\* exactly one object, a String with contents s, and returns it.
copy_string_interns(s) ==
  LET heap == obj_array.heap
      r == copy_string(obj_array, s)
      existing == {o \in DOMAIN heap : heap[o].t = "String" /\ heap[o].chars = s}
  IN IF existing # {}
       THEN r.oa = obj_array /\ r.ptr \in existing
       ELSE /\ Len(r.oa.heap) = Len(heap) + 1
            /\ r.ptr = Len(heap) + 1
            /\ r.oa.heap[r.ptr].t = "String"
            /\ r.oa.heap[r.ptr].chars = s
            /\ \A o \in DOMAIN heap : r.oa.heap[o] = heap[o]

\* C4: after any sequence of copy_string calls (among other allocations) no
\* two String objects have the same contents, the intern table points to the
\* String of each contents, the object list holds each object once, and
\* copy_string returns the existing String or allocates exactly one.
C4_OneStringPerContents ==
  LET heap == obj_array.heap
  IN /\ \A i, j \in DOMAIN heap :
          (heap[i].t = "String" /\ heap[j].t = "String"
             /\ heap[i].chars = heap[j].chars) => i = j
     /\ \A o \in DOMAIN heap :
          /\ Count(Listed, o) = 1
          /\ heap[o].t = "String"
               => strings_get(obj_array.strings, heap[o].chars) = o
     /\ \A s \in InternStrings : copy_string_interns(s)

\* The last call was a copy_string of contents that were already interned,
\* among at least two Strings.
C4_CopyOfInterned ==
  /\ pc = "obj_array"
  /\ last.op = "copy_string"
  /\ last.ptr # Len(obj_array.heap)
  /\ obj_array.heap[last.ptr].chars = last.arg
  /\ Cardinality({o \in DOMAIN obj_array.heap :
                    obj_array.heap[o].t = "String"}) >= 2

\* C5: make_constant reports "Too many constants in one chunk." when the
\* index of the constant it appended is above 255, so a chunk of more than 256
\* constants has a compile error, and the operand byte emit_constant writes
\* is the index of the constant it added.
C5_TooManyConstants ==
  LET chunk == parser.chunk
  IN /\ Len(chunk.constants) > UINT8_COUNT => parser.had_error
     /\ Len(chunk.constants) <= UINT8_COUNT => ~parser.had_error
     /\ (pc = "compile" /\ Len(chunk.constants) >= 1 /\ ~parser.had_error)
          => chunk.code[Len(chunk.code)] = Len(chunk.constants) - 1

\* C6: a push on the full value stack makes interpret return RuntimeError:
\* run() never stops with the stack full for another reason.
C6_StackOverflowIsRuntimeError ==
  (pc = "done" /\ stack_top = STACK_MAX) => result = "RuntimeError"

\* The CALL at hand: its operand, its callee and whether call will get past
\* its arity test.
call_arg_count == read_byte_value(Fetched)

call_callee == peek(VM, call_arg_count)

calls_function ==
  /\ Dispatch(OpCode.Call)
  /\ stack_top >= call_arg_count + 1
  /\ is_function(obj_array.heap, call_callee)
  /\ obj_array.heap[call_callee.obj].arity = call_arg_count

\* A CALL of a function with as many arguments as it has parameters: with
\* FRAMES_MAX frames it is the runtime error "Stack overflow." and pushes no
\* frame, with fewer frames it pushes the frame of the callee and run() goes on.
call_respects_frame_limit ==
  calls_function =>
    IF frame_count = FRAMES_MAX
      THEN /\ result' = "RuntimeError"
           /\ frame_count' = frame_count
           /\ frames' = frames
           /\ stderr'[Len(stderr) + 1].message = "Stack overflow."
      ELSE /\ pc' = "run"
           /\ frame_count' = frame_count + 1
           /\ frame' = [function |-> call_callee.obj, ip |-> 0,
                        stack_top |-> stack_top - call_arg_count - 1]

\* C7: frame_count never exceeds FRAMES_MAX; a CALL of a function executed
\* with FRAMES_MAX frames reports "Stack overflow." without pushing a frame,
\* and one executed with FRAMES_MAX - 1 frames succeeds.
C7_FrameLimit ==
  [](frame_count <= FRAMES_MAX) /\ [][call_respects_frame_limit]_vars

\* The recursion has got FRAMES_MAX frames deep and its next call overflowed.
C7_Overflowed ==
  /\ frame_count = FRAMES_MAX
  /\ result = "RuntimeError"
  /\ "Stack overflow." \in Messages

calls_native ==
  /\ Dispatch(OpCode.Call)
  /\ stack_top >= call_arg_count + 1
  /\ is_native(obj_array.heap, call_callee)

\* A CALL of a native hands it the top arg_count values of the stack in the
\* order they were pushed, and leaves its result where the callee was.
native_gets_its_arguments ==
  calls_native =>
    /\ native_args' =
         stack_slice(VM, stack_top - call_arg_count, stack_top)
    /\ stack_top' = stack_top - call_arg_count

\* C8: the native a CALL targets receives exactly the top argc stack entries,
\* and the callee and its arguments are replaced by the one return value.
C8_NativeArguments == [][native_gets_its_arguments]_vars

\* C9: when interpret returns RuntimeError, runtime_error has reset the
\* stack: the value stack is empty and there is no frame.
C9_RuntimeErrorResetsStack ==
  result = "RuntimeError" => stack_top = 0 /\ frame_count = 0

\* The name a GET_GLOBAL at hand reads.
global_name == as_str(obj_array.heap, read_constant_value(Fetched))

\* A GET_GLOBAL of a name without binding ends run() with RuntimeError,
\* pushes nothing and reports the name.
undefined_global_is_reported ==
  (Dispatch(OpCode.GetGlobal) /\ ~map_has(globals, global_name)) =>
    /\ result' = "RuntimeError"
    /\ stack_top' = stack_top
    /\ stack' = stack
    /\ stderr'[Len(stderr) + 1].message =
         "Undefined variable '" \o global_name \o "'."

\* C10: GET_GLOBAL of a name that has no binding makes interpret return
\* RuntimeError, pushes nothing, and reports "Undefined variable '<name>'."
C10_UndefinedGlobal == [][undefined_global_is_reported]_vars

\* The names bound in a global table.
global_names(table) == {table[i][1] : i \in DOMAIN table}

\* A SET_GLOBAL of an absent name ends run() with RuntimeError and leaves the
\* table alone; of a present name it binds the name to peek(0), leaves every
\* other binding and the stack depth alone, and run() goes on.
set_global_keeps_names ==
  Dispatch(OpCode.SetGlobal) =>
    IF global_name \notin global_names(globals)
      THEN /\ result' = "RuntimeError"
           /\ globals' = globals
      ELSE /\ pc' = "run"
           /\ global_names(globals') = global_names(globals)
           /\ map_get(globals', global_name) = peek(VM, 0)
           /\ \A k \in global_names(globals) \ {global_name} :
                map_get(globals', k) = map_get(globals, k)
           /\ stack_top' = stack_top

\* C11: SET_GLOBAL never creates a binding: of an absent name it yields
\* RuntimeError with the global table unchanged, of a present name it changes
\* only that name's value, to peek(0), and not the stack depth.
C11_SetGlobalNeverDefines == [][set_global_keeps_names]_vars

\* The assignment `a = a - 3` to the global a has been executed.
C11_GlobalAssigned ==
  /\ pc = "run"
  /\ "a" \in global_names(globals)
  /\ map_get(globals, "a") = number(F64(-2, 1))

\* compile(source, ..) has returned: parser is the Parser it ended with.
compile_returned == source \in Sources /\ pc # "start"

\* C12: compile reports failure exactly when an error was reported at some
\* point of the compilation (had_error was set, whatever was compiled after
\* the error), and interpret then returns CompileError without having executed
\* an instruction: nothing printed, no global defined, no frame entered.
C12_CompileErrorRunsNothing ==
  /\ compile_returned =>
       /\ func = 0 <=> parser.stderr # <<>>
       /\ func = 0 <=> parser.had_error
       /\ func = 0 <=> result = "CompileError"
  /\ result = "CompileError" =>
       /\ pc = "done"
       /\ stdout = <<>>
       /\ globals = <<>>
       /\ stack_top = 0
       /\ frame_count = 0
       /\ frame = CallFrame_default

\* compile has recovered from an error in the first statement and compiled
\* the statements after it, and interpret has returned CompileError.
C12_ErrorThenCode ==
  /\ source = "print ; var a = 1; print a;"
  /\ result = "CompileError"
  /\ ~parser.panic_mode
  /\ Len(parser.chunk.code) > 1
  /\ Len(parser.stderr) = 1

\* The 16-bit operand at code[offset], code[offset + 1] (0-based).
operand_at(code, offset) == code[offset + 1] * 256 + code[offset + 2]

\* The messages the compiler has reported.
CompilerMessages(p) == {p.stderr[i].message : i \in DOMAIN p.stderr}

\* A patch_jump(offset): a distance above 65535 sets had_error and, unless the
\* parser is in panic mode already, reports "Too much code to jump over.";
\* any other distance reports nothing and is the operand written.  Neither
\* changes the length of the code.
patch_jump_fits ==
  (pc = "jumps" /\ last.op = "emit_jump" /\ last'.op = "patch_jump") =>
    LET offset == last.ptr
        jump == Len(parser.chunk.code) - offset - 2
    IN /\ Len(parser'.chunk.code) = Len(parser.chunk.code)
       /\ IF jump > 65535
            THEN /\ parser'.had_error
                 /\ ~parser.panic_mode =>
                      /\ Len(parser'.stderr) = Len(parser.stderr) + 1
                      /\ parser'.stderr[Len(parser'.stderr)].message =
                           "Too much code to jump over."
            ELSE /\ parser'.had_error = parser.had_error
                 /\ parser'.stderr = parser.stderr
                 /\ operand_at(parser'.chunk.code, offset) = jump

\* C13: patch_jump reports "Too much code to jump over." and sets had_error
\* exactly when current_length - offset - 2 > 65535, so the operand of every
\* jump of a chunk without error is its distance, not a truncation of it.
C13_JumpFitsU16 == [][patch_jump_fits]_vars

\* patch_jump has met a distance of 65536 and reported it.
C13_JumpTooFar ==
  /\ pc = "jumps"
  /\ last.op = "patch_jump"
  /\ Len(parser.chunk.code) - last.ptr - 2 = 65536
  /\ parser.had_error
  /\ "Too much code to jump over." \in CompilerMessages(parser)

\* An emit_loop(loop_start) whose loop measures `size`: above 65535 it sets
\* had_error and, unless the parser is in panic mode already, reports "Loop
\* body too large."; otherwise it reports nothing, and the LOOP it has written
\* takes the ip behind its operand back to loop_start.
emit_loop_limits(size) ==
  LET loop_start == last.ptr
      code == parser'.chunk.code
  IN /\ Len(code) = Len(parser.chunk.code) + 3
     /\ code[Len(code) - 2] = OpCode.Loop
     /\ IF size > 65535
          THEN /\ parser'.had_error
               /\ ~parser.panic_mode =>
                    /\ Len(parser'.stderr) = Len(parser.stderr) + 1
                    /\ parser'.stderr[Len(parser'.stderr)].message =
                         "Loop body too large."
          ELSE /\ parser'.had_error = parser.had_error
               /\ parser'.stderr = parser.stderr
               /\ Len(code) - operand_at(code, Len(code) - 2) = loop_start

emits_loop == pc = "jumps" /\ last.op = "loop_start" /\ last'.op = "emit_loop"

\* C14 as amended: emit_loop reports "Loop body too large." exactly when the
\* backward distance exceeds 65535, the distance being the bytes from
\* loop_start to the LOOP opcode plus the 3 bytes of the LOOP instruction.
C14_LoopDistanceFitsU16 ==
  [][emits_loop =>
       emit_loop_limits(Len(parser.chunk.code) - last.ptr + 3)]_vars

\* emit_loop has written the largest distance: 65532 bytes lie between
\* loop_start and the LOOP, and no error is reported.
C14_LargestLoop ==
  /\ pc = "jumps"
  /\ last.op = "emit_loop"
  /\ Len(parser.chunk.code) - 3 - last.ptr = 65532
  /\ ~parser.had_error
  /\ operand_at(parser.chunk.code, Len(parser.chunk.code) - 2) = 65535

\* C14 as stated: emit_loop reports "Loop body too large." exactly when the
\* body of the loop, the bytes from loop_start to the LOOP, exceeds 65535: a
\* body of exactly 65535 bytes compiles and its LOOP jumps back to loop_start.
C14_LoopBodyFitsU16 ==
  [][emits_loop => emit_loop_limits(Len(parser.chunk.code) - last.ptr)]_vars

\* C15: 256 locals live at once compile without error and the 257th
\* declaration reports "Too many local variables in function." without
\* adding a local: local_count never exceeds the 256 entries of the array,
\* and the slot a GET_LOCAL is emitted with is the index of the local, which
\* fits in one byte.
C15_LocalsLimit ==
  pc = "locals" =>
    /\ parser.compiler.local_count <= 256
    /\ Len(parser.compiler.locals) <= 256
    /\ last.op = "var_declaration" =>
         IF last.ptr <= 256
           THEN /\ ~parser.had_error
                /\ parser.compiler.local_count = last.ptr
                /\ parser.compiler.locals[last.ptr].name.text = last.arg
           ELSE /\ parser.had_error
                /\ parser.compiler.local_count = 256
                /\ "Too many local variables in function."
                     \in CompilerMessages(parser)
    /\ last.op = "named_variable" =>
         LET code == parser.chunk.code
         IN /\ code[Len(code) - 1] = OpCode.GetLocal
            /\ code[Len(code)] = last.ptr
            /\ last.ptr \in 0..255

\* The 257th declaration of the block has been refused.
C15_TooManyLocals ==
  /\ pc = "locals"
  /\ last.op = "var_declaration"
  /\ last.ptr = 257
  /\ parser.compiler.local_count = 256
  /\ parser.had_error

\* The opcodes of the opcode table with a fixed stack effect, by effect.
Pushing ==
  {OpCode.Constant, OpCode.Nil, OpCode.True, OpCode.False, OpCode.GetLocal,
   OpCode.GetGlobal}

Popping ==
  {OpCode.Pop, OpCode.DefineGlobal, OpCode.Equal, OpCode.Greater, OpCode.Less,
   OpCode.Add, OpCode.Subtract, OpCode.Multiply, OpCode.Divide, OpCode.Print_}

Neutral ==
  {OpCode.SetLocal, OpCode.SetGlobal, OpCode.Not, OpCode.Negate, OpCode.Jump,
   OpCode.JumpIfFalse, OpCode.Loop}

\* An instruction after which run() goes on has changed stack_top by the
\* effect the table lists for it.
stack_effect_of_table ==
  (pc = "run" /\ running(Fetched) /\ pc' = "run") =>
    /\ instruction \in Pushing => stack_top' = stack_top + 1
    /\ instruction \in Popping => stack_top' = stack_top - 1
    /\ instruction \in Neutral => stack_top' = stack_top

\* C16: on a path without error every opcode changes stack_top by its stack
\* effect of the opcode table: +1 for CONSTANT, NIL, TRUE, FALSE, GET_LOCAL,
\* GET_GLOBAL; -1 for POP, DEFINE_GLOBAL, EQUAL, GREATER, LESS, ADD,
\* SUBTRACT, MULTIPLY, DIVIDE, PRINT; 0 for SET_LOCAL, SET_GLOBAL, NOT,
\* NEGATE, JUMP, JUMP_IF_FALSE, LOOP.
C16_StackEffects == [][stack_effect_of_table]_vars

\* `print 1 + 2 * 3;` has pushed its constants, multiplied, added and
\* printed, and only the script function is left on the stack.
C16_ExpressionPrinted ==
  /\ source = "print 1 + 2 * 3;"
  /\ pc = "run"
  /\ Len(stdout) = 1
  /\ stack_top = 1

\* C17: chunk.lines and chunk.code have the same length in every state of a
\* compilation: write_chunk pushes one entry on each, and patch_jump
\* overwrites bytes of code in place.
C17_LinePerByte == Len(parser.chunk.lines) = Len(parser.chunk.code)

\* A jump over code has been emitted and patched, and every byte of it has
\* its line.
C17_PatchedJumpHasLines ==
  /\ last.op = "patch_jump"
  /\ Len(parser.chunk.code) = 4
  /\ parser.chunk.code[3] = 1
  /\ Len(parser.chunk.lines) = 4

\* In 1 a 2 b 3 the operator b takes 2 for its left operand exactly when it
\* binds tighter than a; otherwise its left operand is 1 a 2.
binds_tighter(b, a) ==
  get_rule(b.token_type).precedence > get_rule(a.token_type).precedence

\* The postfix form of 1 a 2 b 3, over the constants 0, 1 and 2.
postfix(a, b) ==
  IF binds_tighter(b, a)
    THEN <<OpCode.Constant, 0, OpCode.Constant, 1, OpCode.Constant, 2,
           b.code, a.code>>
    ELSE <<OpCode.Constant, 0, OpCode.Constant, 1, a.code,
           OpCode.Constant, 2, b.code>>

printed_number(n) == <<[text |-> "", number |-> n]>>

\* C18: binary-operator precedence and left-associativity are respected: the
\* bytecode of `print 1 a 2 b 3;` is the postfix form of 1 a (2 b 3) when b
\* binds tighter than a and of (1 a 2) b 3 otherwise; `print 1 + 2 * 3;`
\* prints 7 and `print 1 - 2 - 3;` prints (1 - 2) - 3 = -4.
C18_PrecedenceAndAssociativity ==
  /\ \A a, b \in BinaryOperators :
       (source = binary_source(a, b) /\ pc # "start") =>
         /\ ~parser.had_error
         /\ parser.chunk.code =
              postfix(a, b) \o <<OpCode.Print_, OpCode.Return>>
         /\ parser.chunk.constants =
              <<number(F64(1, 1)), number(F64(2, 1)), number(F64(3, 1))>>
  /\ (source = "print 1 + 2 * 3;" /\ stdout # <<>>) =>
       stdout = printed_number(F64(7, 1))
  /\ (source = "print 1 - 2 - 3;" /\ stdout # <<>>) =>
       stdout = printed_number(F64(-4, 1))
  /\ (source = "print 1 / 2 / 3;" /\ stdout # <<>>) =>
       stdout = printed_number(F64(1, 6))
  /\ (source = "print 1 * 2 - 3;" /\ stdout # <<>>) =>
       stdout = printed_number(F64(-1, 1))

\* `print 1 - 2 - 3;` has printed -4.
C18_LeftAssociativePrinted ==
  /\ source = "print 1 - 2 - 3;"
  /\ stdout = printed_number(F64(-4, 1))
  /\ parser.chunk.code[5] = OpCode.Subtract

\* C19: the compiled for statement runs its initializer once, then condition,
\* body and increment in order until the condition is falsey, and leaves the
\* stack as deep as it found it: the program that sums i for i = 0, 1, 2 into
\* x prints 3 and interpret returns Ok.
C19_ForLoopSums ==
  (source = "var x = 0; for (var i = 0; i < 3; i = i + 1) x = x + i; print x;"
   /\ pc = "done")
    => /\ result = "Ok"
       /\ stdout = printed_number(F64(3, 1))

\* What a constant holds: the characters for a string, the value otherwise.
constant_contents(heap, v) ==
  IF is_string(heap, v) THEN [t |-> "String", chars |-> heap[v.obj].chars]
  ELSE v

\* What a run of compile produced: the code, the contents of the constant
\* pool, the line table, had_error and the messages reported.
compile_output(p) ==
  [code |-> p.chunk.code,
   constants |-> [i \in DOMAIN p.chunk.constants |->
                    constant_contents(p.obj_array.heap, p.chunk.constants[i])],
   lines |-> p.chunk.lines,
   had_error |-> p.had_error,
   stderr |-> p.stderr]

same_output_as_run_before ==
  (last.op = "compile" /\ last'.op = "compile")
    => compile_output(parser') = compile_output(parser)

equal_of_rule(heap, a, b) ==
  CASE a.t # b.t -> "false"
    [] a.t = "Nil" /\ b.t = "Nil" -> "true"
    [] a.t = "Bool" /\ b.t = "Bool" ->
         IF a.boolean = b.boolean THEN "true" ELSE "false"
    [] is_string(heap, a) /\ is_string(heap, b) ->
         IF heap[a.obj].chars = heap[b.obj].chars THEN "true" ELSE "false"
    [] OTHER -> ""

equal_pushes_rule ==
  LET heap == obj_array.heap
      a == peek(Fetched, 1)
      b == peek(Fetched, 0)
  IN (Dispatch(OpCode.Equal) /\ equal_of_rule(heap, a, b) # "") =>
       /\ pc' = "run"
       /\ stack_top' = stack_top - 1
       /\ stack'[stack_top'] = bool(equal_of_rule(heap, a, b) = "true")

\* C21: EQUAL pops both operands and pushes true for Nil and Nil, false for
\* two values of different type tags, the comparison of the booleans for two
\* Bool values and, for two strings, true exactly when their contents are
\* equal; `print "a" == "a";` prints true.
C21_EqualByTag ==
  /\ [][equal_pushes_rule]_vars
  /\ [](source = "print \"a\" == \"a\"; print 0/0 == 0/0;" /\ stdout # <<>>
          => stdout[1].text = "true")

\* Nil == Nil, a number and a boolean, two booleans and two strings of
\* other contents have been compared and printed.
C21_AllCasesPrinted ==
  /\ pc = "run"
  /\ [i \in DOMAIN stdout |-> stdout[i].text]
       = <<"true", "false", "false", "false">>

\* The k-th active frame (1 is the bottom one): the top one is cached in
\* `frame`, the ones below it are in the frame array.
active_frame(k) == IF k = frame_count THEN frame ELSE frames[k]

\* The arguments of a CALL are the arg_count values on top of the stack.
call_pushes_frame ==
  (Dispatch(OpCode.Call) /\ pc' = "run" /\ calls_function) =>
    /\ frame_count' = frame_count + 1
    /\ frame'.ip = 0
    /\ frame'.function = call_callee.obj
    /\ frame'.stack_top = stack_top - call_arg_count - 1
    /\ stack_top' = stack_top

\* C22: after CALL argc on a function of arity argc a new frame is pushed with
\* ip = 0 and slot-base = stack_top - argc - 1; for every active frame
\* stack[slot-base] is the frame's function (its arguments lie in the slots
\* above), and the slot-bases do not decrease from the bottom frame to the top
\* frame.
C22_FrameSlots ==
  pc = "run" =>
    /\ \A k \in 1..frame_count :
         stack_at(VM, active_frame(k).stack_top)
           = object(active_frame(k).function)
    /\ \A k \in 1..(frame_count - 1) :
         active_frame(k).stack_top <= active_frame(k + 1).stack_top

\* RETURN with a caller to return to: the callee, its arguments and its locals
\* are replaced by the return value, and the frame is dropped.
return_to_caller ==
  (Dispatch(OpCode.Return) /\ frame_count > 1) =>
    /\ pc' = "run"
    /\ frame_count' = frame_count - 1
    /\ stack_top' = frame.stack_top + 1
    /\ stack'[stack_top'] = peek(Fetched, 0)

\* RETURN of the script: interpret is about to return Ok with an empty stack.
return_of_script ==
  (Dispatch(OpCode.Return) /\ frame_count = 1) =>
    /\ result' = "Ok"
    /\ frame_count' = 0
    /\ stack_top' = 0

\* C23: RETURN with more than one active frame pops the return value, drops
\* the top frame, sets stack_top to the dropped frame's slot-base and pushes
\* the return value; with one active frame it pops the script function and
\* run() returns Ok.
C23_Return == [][return_to_caller /\ return_of_script]_vars

\* The frame array below the top frame: each entry is the frame of a function
\* that is inside a call, its ip just behind the operand of that CALL.
callers_are_written_back ==
  pc = "run" =>
    \A k \in 1..(frame_count - 1) :
      /\ frames[k] # CallFrame_default
      /\ is_function(obj_array.heap, object(frames[k].function))
      /\ frames[k].ip >= 2
      /\ frame_chunk(VM, frames[k]).code[frames[k].ip - 1] = OpCode.Call

\* CALL of a function stores the cached frame, with its ip behind the operand,
\* in its place of the frame array and leaves the frames below alone.
call_writes_frame_back ==
  (calls_function /\ pc' = "run") =>
    /\ frames'[frame_count] = [frame EXCEPT !.ip = @ + 2]
    /\ \A k \in 1..(frame_count - 1) : frames'[k] = frames[k]

\* RETURN to a caller loads the frame the CALL wrote back.
return_loads_caller ==
  (Dispatch(OpCode.Return) /\ frame_count > 1) =>
    /\ frame' = frames[frame_count - 1]
    /\ \A k \in 1..(frame_count - 2) : frames'[k] = frames[k]

\* C24: every CALL writes the cached current frame back to the frame array
\* before the callee's frame is loaded, so the matching RETURN resumes the
\* caller with its own function and its ip just behind the operand of the
\* CALL; while a callee runs, every frame below the top one holds its real
\* function and ip in the frame array, never the default frame.
C24_FrameWrittenBack ==
  /\ []callers_are_written_back
  /\ [][call_writes_frame_back /\ return_loads_caller]_vars

\* id(3) has returned: the script is the cached frame again, its ip behind
\* the operand of CALL 1, and 3 lies where id and its argument were.
C24_CallerResumed ==
  /\ source = "fun id(x) { return x; } print id(3);"
  /\ pc = "run"
  /\ frame_count = 1
  /\ frame = [function |-> func, ip |-> 10, stack_top |-> 0]
  /\ stack_top = 2
  /\ peek(VM, 0) = number(<<3, 1>>)

\* ADD of two strings: the operands are replaced by one string of the left
\* contents followed by the right; it is the interned object of these contents
\* if there is one, and otherwise one new object, at the head of the object
\* list and in the intern table.
add_concatenates ==
  LET heap == obj_array.heap
      a == peek(Fetched, 1)
      b == peek(Fetched, 0)
      chars == heap[a.obj].chars \o heap[b.obj].chars
      interned == strings_get(obj_array.strings, chars)
      pushed == stack'[stack_top']
  IN (Dispatch(OpCode.Add) /\ stack_top >= 2
      /\ is_string(heap, a) /\ is_string(heap, b)) =>
       /\ pc' = "run"
       /\ stack_top' = stack_top - 1
       /\ is_string(obj_array'.heap, pushed)
       /\ obj_array'.heap[pushed.obj].chars = chars
       /\ IF interned # 0
            THEN /\ pushed = object(interned)
                 /\ obj_array' = obj_array
            ELSE /\ pushed = object(Len(heap) + 1)
                 /\ Len(obj_array'.heap) = Len(heap) + 1
                 /\ free_walk(obj_array'.heap, obj_array'.objects)
                      = <<pushed.obj>> \o Listed
                 /\ obj_array'.strings
                      = Append(obj_array.strings, <<chars, pushed.obj>>)

\* C25: ADD on two strings pops both and pushes one string whose contents
\* are the left operand followed by the right one: the interned object of
\* these contents when there is one (the object list does not grow), and
\* otherwise exactly one new object, linked into the object list and inserted
\* into the intern table.  "hi" + " there" prints hi there.
C25_AddConcatenates ==
  /\ [][add_concatenates]_vars
  /\ [](source = "var a = \"hi\"; var b = \" there\"; print a + b;"
          /\ stdout # <<>> => stdout[1].text = "hi there")

\* "a" + "b" has found the "ab" the compiler interned, and the comparison
\* with that constant has printed true.
C25_ConcatenationWasInterned ==
  /\ source = "print \"a\" + \"b\" == \"ab\";"
  /\ pc = "run"
  /\ stdout = <<[text |-> "true", number |-> <<0, 1>>]>>
  /\ {obj_array.strings[i][1] : i \in DOMAIN obj_array.strings}
       = {"a", "b", "ab", "clock"}

\* The objects a table entry <<key, value>> refers to: the string its key
\* borrows the characters of, and the object of its value (the globals hold
\* Values, the intern table pointers).
referred_by(entry) ==
  {o \in DOMAIN obj_array.heap :
     \/ /\ obj_array.heap[o].t = "String"
        /\ obj_array.heap[o].chars = entry[1]
     \/ entry[2] = o
     \/ entry[2] = object(o)}

\* C26: at shutdown the global table and the intern table are both emptied
\* before the first object is freed: in no state does either of them hold a
\* key or a value that refers to a freed object.
C26_TablesClearedBeforeFree ==
  /\ freed # <<>> => globals = <<>> /\ obj_array.strings = <<>>
  /\ \A i \in DOMAIN globals, j \in DOMAIN freed :
       freed[j] \notin referred_by(globals[i])
  /\ \A i \in DOMAIN obj_array.strings, j \in DOMAIN freed :
       freed[j] \notin referred_by(obj_array.strings[i])

\* free_objects is in its loop after a run that ended in RuntimeError (clock
\* was defined, "clock" and "undefined" were interned): objects have been
\* freed, others are still to be freed, and both tables are empty.
C26_FreeingAfterClear ==
  /\ source = "print undefined;"
  /\ result = "RuntimeError"
  /\ pc = "free_loop"
  /\ Len(freed) >= 2
  /\ free_cursor # 0
  /\ globals = <<>>
  /\ obj_array.strings = <<>>

\* The instruction at hand is an arithmetic, comparison or negate instruction
\* whose operands (on the stack) have a type it does not take.
type_error ==
  LET heap == obj_array.heap
      a == peek(Fetched, 1)
      b == peek(Fetched, 0)
  IN \/ /\ Dispatch(OpCode.Negate)
        /\ stack_top >= 1
        /\ ~is_number(b)
     \/ /\ \E op \in {OpCode.Subtract, OpCode.Multiply, OpCode.Divide,
                      OpCode.Greater, OpCode.Less} : Dispatch(op)
        /\ stack_top >= 2
        /\ ~(is_number(a) /\ is_number(b))
     \/ /\ Dispatch(OpCode.Add)
        /\ stack_top >= 2
        /\ ~(is_number(a) /\ is_number(b))
        /\ ~(is_string(heap, a) /\ is_string(heap, b))

\* The failing instruction ends run() with RuntimeError, having reported the
\* error; it has pushed and printed nothing.
type_error_aborts ==
  type_error =>
    /\ pc' = "returned"
    /\ result' = "RuntimeError"
    /\ Len(stderr') > Len(stderr)
    /\ stack_top' = stack_top
    /\ stack' = stack
    /\ stdout' = stdout
    /\ globals' = globals

\* After RuntimeError no instruction is executed: the VM is left as it is but
\* for the shutdown of interpret, which returns RuntimeError.
aborted_stays_aborted ==
  result = "RuntimeError" =>
    /\ pc \in {"returned", "free_objects", "done"}
    /\ result' = "RuntimeError"
    /\ <<stack, stack_top, frame, frame_count, stdout, stderr>>'
         = <<stack, stack_top, frame, frame_count, stdout, stderr>>

\* C27: a type error on ADD, SUBTRACT, MULTIPLY, DIVIDE, GREATER, LESS or
\* NEGATE (an operand that is not a number; for ADD operands that are neither
\* two numbers nor two strings) aborts the interpret invocation with
\* RuntimeError: the operation pushes no result, and no instruction after the
\* failing one is executed.
C27_TypeErrorAborts == [][type_error_aborts /\ aborted_stays_aborted]_vars

\* `print nil * 1;` has ended in RuntimeError before its PRINT.
C27_MultiplyOfNil ==
  /\ source = "print nil * 1;"
  /\ pc = "done"
  /\ result = "RuntimeError"
  /\ stdout = <<>>
  /\ "Operands must be numbers." \in Messages

\* One call of advance, error or error_at_current: in panic mode it reports
\* nothing; out of it at most one error, which sets had_error and panic_mode.
one_error_until_synchronized ==
  (last'.op \in {"advance", "error", "error_at_current"}
   \/ (last.op = "synchronize" /\ last'.op = "synchronize"))
    => /\ parser.panic_mode => parser'.stderr = parser.stderr
       /\ parser'.stderr # parser.stderr =>
            /\ Len(parser'.stderr) = Len(parser.stderr) + 1
            /\ parser'.had_error
            /\ parser'.panic_mode

\* One declaration: its productions report at most one error, none if it is
\* entered in panic mode, and what synchronize skips at most one more.
errors_of_declaration ==
  last'.op = "declaration" =>
    /\ Len(parser'.stderr)
         <= Len(parser.stderr) + (IF parser.panic_mode THEN 1 ELSE 2)
    /\ parser'.stderr # parser.stderr => parser'.had_error

had_error_is_kept ==
  /\ parser.had_error => parser'.had_error
  /\ parser.stderr # <<>> => parser.had_error
  /\ Len(parser'.stderr) >= Len(parser.stderr)
  /\ SubSeq(parser'.stderr, 1, Len(parser.stderr)) = parser.stderr

synchronized(p) ==
  \/ p.current.token_type = "EOF"
  \/ p.previous.token_type = "Semicolon"
  \/ p.current.token_type \in
       {"Class", "Fun", "Var", "For", "If", "While", "Print", "Return"}

\* A declaration that was in panic mode (it was entered in it or has reported
\* an error) has ended where synchronize stops.
declaration_synchronizes ==
  (last'.op = "declaration"
   /\ (parser.panic_mode \/ parser'.stderr # parser.stderr))
    => synchronized(parser')

declaration_leaves_panic_mode ==
  last'.op = "declaration" => ~parser'.panic_mode

\* C29: whenever declaration() returns, panic_mode is false; and if it was
\* set during the declaration, synchronize has advanced the parser so that the
\* current token is EOF, or the previous token is `;`, or the current token is
\* one of class, fun, var, for, if, while, print, return.
C29_DeclarationEndsSynchronized ==
  [][declaration_leaves_panic_mode /\ declaration_synchronizes]_vars

\* What compile has reported, message by message.
compile_errors == [i \in DOMAIN parser.stderr |-> parser.stderr[i].message]

\* C30: an `=` behind an expression that is not a bare variable parsed at
\* assignment precedence is the compile error "Invalid assignment target.":
\* `a + b = c` and `a * b = c` do not compile, while `a = b` and `a = b = c`
\* compile to SET instructions.
C30_InvalidAssignmentTarget ==
  compile_returned =>
    /\ source \in {"a + b = c;", "a * b = c;"} =>
         /\ compile_errors = <<"Invalid assignment target.">>
         /\ parser.stderr[1].at = "="
         /\ parser.had_error
         /\ result = "CompileError"
    /\ source = "a = b;" =>
         /\ ~parser.had_error
         /\ parser.chunk.code =
              <<OpCode.GetGlobal, 1, OpCode.SetGlobal, 0, OpCode.Pop,
                OpCode.Return>>
    /\ source = "a = b = c;" =>
         /\ ~parser.had_error
         /\ parser.chunk.code =
              <<OpCode.GetGlobal, 2, OpCode.SetGlobal, 1, OpCode.SetGlobal, 0,
                OpCode.Pop, OpCode.Return>>

\* `a + b = c;` has been refused for its assignment target, after the GETs of
\* a and b and the ADD were compiled.
C30_SumAssigned ==
  /\ source = "a + b = c;"
  /\ pc = "done"
  /\ result = "CompileError"
  /\ compile_errors = <<"Invalid assignment target.">>
  /\ SubSeq(parser.chunk.code, 1, 5)
       = <<OpCode.GetGlobal, 0, OpCode.GetGlobal, 1, OpCode.Add>>

\* `a operator (x = 2)` takes its value from the left operand alone.
short_circuits(a, operator) ==
  IF operator = "or" THEN ~is_falsey(a.value) ELSE is_falsey(a.value)

\* C31: the code compiled for `a or b` leaves exactly one value on the stack,
\* the value of a when a is truthy, and then b's code is not executed, and the
\* value of b when a is falsey; `a and b` leaves a when a is falsey without
\* executing b, and b otherwise.
C31_ShortCircuit ==
  \A a \in LeftOperands, operator \in {"or", "and"} :
    source = logical_source(a, operator) =>
      /\ (Dispatch(OpCode.Print_) /\ stdout = <<>>) =>
           /\ stack_top = 2
           /\ peek(VM, 0) = IF short_circuits(a, operator) THEN a.value
                            ELSE number(<<2, 1>>)
           /\ map_get(globals, "x") = IF short_circuits(a, operator)
                                        THEN number(<<0, 1>>)
                                        ELSE number(<<2, 1>>)
      /\ Len(stdout) >= 1 =>
           stdout[1] = Display(obj_array.heap,
                               IF short_circuits(a, operator) THEN a.value
                               ELSE number(<<2, 1>>))
      /\ Len(stdout) = 2 =>
           /\ stdout[2] = Display(obj_array.heap,
                                  IF short_circuits(a, operator)
                                    THEN number(<<0, 1>>)
                                    ELSE number(<<2, 1>>))
           /\ pc = "run" => stack_top = 1

\* `true or (x = 2)` has printed true and then the x that was not assigned.
C31_OrSkippedRight ==
  /\ source = "var x = 0; print true or (x = 2); print x;"
  /\ pc = "run"
  /\ stdout = <<[text |-> "true", number |-> <<0, 1>>],
                [text |-> "", number |-> <<0, 1>>]>>
  /\ stack_top = 1

\* The numbers printed so far.
printed_numbers == [i \in DOMAIN stdout |-> stdout[i].number]

\* The statements after the if or while statement are reached with the stack
\* as deep as before it: only the script function is on it.
statement_keeps_depth ==
  source \in ConditionSources =>
    /\ pc = "run" => stack_top \in 1..3
    /\ Dispatch(OpCode.Print_) => stack_top = 2
    /\ Dispatch(OpCode.Return) => stack_top = 1

\* C32: a compiled `if (c) S1 else S2` runs S1 and not S2 when c is truthy
\* and S2 and not S1 when c is falsey; on either path the condition is popped
\* exactly once, so the stack is as deep after the statement as before it.
\* The same holds for `while`, whose exit path pops the condition once.
C32_BranchesPopCondition ==
  /\ statement_keeps_depth
  /\ \A c \in LeftOperands :
       source = if_source(c) =>
         /\ Len(stdout) <= 2
         /\ Len(stdout) >= 1 =>
              printed_numbers[1] = IF is_falsey(c.value) THEN <<2, 1>>
                                   ELSE <<1, 1>>
         /\ Len(stdout) = 2 => printed_numbers[2] = <<3, 1>>
  /\ (source = "var i = 0; while (i < 2) i = i + 1; print i;"
      /\ stdout # <<>>) => printed_numbers = <<<<2, 1>>>>
  /\ (source = "while (false) print 1; print 2;" /\ stdout # <<>>)
       => printed_numbers = <<<<2, 1>>>>

\* The else branch was taken for nil, and the statement after the if has run.
C32_ElseBranchTaken ==
  /\ source = "if (nil) print 1; else print 2; print 3;"
  /\ Dispatch(OpCode.Return)
  /\ printed_numbers = <<<<2, 1>>, <<3, 1>>>>
  /\ stack_top = 1

\* declare_variable, called in the step, has reported message.
declare_reports(message) ==
  /\ Len(parser'.stderr) = Len(parser.stderr) + 1
  /\ parser'.stderr[Len(parser'.stderr)].message = message

\* The step is a declare_variable of last'.arg that reports message exactly
\* when a local of the current scope has the name, and that appends a local of
\* depth -1 in a block and changes nothing at global scope.
declares_with(message) ==
  LET c == parser.compiler
      name == last'.arg
      redeclared == \E i \in 1..c.local_count :
                       /\ c.locals[i].name.text = name
                       /\ c.locals[i].depth = c.scope_depth
  IN /\ c.scope_depth > 0 =>
          /\ declare_reports(message) <=> redeclared
          /\ ~redeclared => parser'.stderr = parser.stderr
          /\ parser'.compiler.local_count = c.local_count + 1
          /\ parser'.compiler.locals =
               Append(c.locals, [name |-> scope_name(name), depth |-> -1])
     /\ c.scope_depth = 0 =>
          /\ parser'.stderr = parser.stderr
          /\ parser'.compiler = c

\* C33: declare_variable reports "Already a variable with this name in this
\* scope." exactly when a local of the same name was declared at the current
\* scope depth; a name of an enclosing scope only, or a declaration at global
\* scope, is no error, and in a block a new local of depth -1 is appended.
C33_Redeclaration ==
  [][last'.op = "declare_variable" =>
       declares_with("Already a variable with this name in this scope.")]_vars

\* The step reads the variable last'.arg, and resolve_local reports message
\* (if the parser is not in panic mode) exactly when the innermost local of
\* that name has depth -1.
reads_with(message) ==
  LET c == parser.compiler
      name == last'.arg
      hits == {i \in 1..c.local_count : c.locals[i].name.text = name}
      innermost == CHOOSE i \in hits : \A j \in hits : j <= i
      own == hits # {} /\ c.locals[innermost].depth = -1
  IN IF own /\ ~parser.panic_mode
       THEN /\ declare_reports(message)
            /\ parser'.had_error
       ELSE parser'.stderr = parser.stderr

\* A local has depth -1 exactly while it is the local declared last and its
\* declaration has not reached define_variable.
uninitialized_only_in_declaration ==
  \A i \in 1..parser.compiler.local_count :
    parser.compiler.locals[i].depth = -1
      <=> /\ i = parser.compiler.local_count
          /\ last.op \in {"declare_variable", "initializer"}
          /\ parser.compiler.scope_depth > 0

\* C34: reading a local in its own initializer, as in `{ var a = a; }`, is the
\* compile error "Can't read local variable in its own initializer.":
\* resolve_local reports it whenever the innermost local of the name has depth
\* -1, and a local has depth -1 exactly from its declaration until
\* mark_initialized has run after its initializer.
C34_OwnInitializer ==
  [][/\ (last'.op \in {"initializer", "expression_statement"} /\ last'.arg # "")
          => reads_with("Can't read local variable in its own initializer.")
     /\ uninitialized_only_in_declaration']_vars

\* The locals of p declared in the innermost scope.
scope_locals(p) ==
  {i \in 1..p.compiler.local_count :
     p.compiler.locals[i].depth = p.compiler.scope_depth}

KeywordTypes ==
  [k \in Keywords |->
     CASE k = "and" -> "And" [] k = "class" -> "Class" [] k = "else" -> "Else"
       [] k = "false" -> "False" [] k = "for" -> "For" [] k = "fun" -> "Fun"
       [] k = "if" -> "If" [] k = "nil" -> "Nil" [] k = "or" -> "Or"
       [] k = "print" -> "Print" [] k = "return" -> "Return"
       [] k = "super" -> "Super" [] k = "this" -> "This" [] k = "true" -> "True"
       [] k = "var" -> "Var" [] k = "while" -> "While"]

\* The token scanned last is the one of the lexeme last.arg.
lexeme_scanned == pc = "scanner" /\ last.ptr = head_tokens(last.op) + 1

\* C36: the scanner makes an identifier-shaped lexeme a keyword token exactly
\* when the whole lexeme is one of the sixteen keywords, with the kind of that
\* keyword; every other lexeme of letters, digits and underscores, among them
\* `f`, `fo`, `forx` and `t`, is an Identifier.
C36_Keywords ==
  lexeme_scanned =>
    /\ parser.current.text = last.arg
    /\ parser.current.token_type =
         IF last.arg \in Keywords THEN KeywordTypes[last.arg] ELSE "Identifier"

\* `forx` has been scanned as an identifier.
C36_KeywordExtended ==
  /\ lexeme_scanned
  /\ last.arg = "forx"
  /\ parser.current = [token_type |-> "Identifier", text |-> "forx", line |-> 1]

\* The VM inside run() on the chunk, with nil on top of the stack, when it
\* has read the opcode in front of the operand at ip.
vm_at_operand(chunk, ip) ==
  LET f == new_function(ObjArray_default, chunk)
  IN [push(build_vm(f.oa, f.ptr), nil) EXCEPT !.frame.ip = ip]

\* The VM after the jump instruction whose operand is at ip.
jumped(chunk, ip) ==
  LET m == vm_at_operand(chunk, ip)
      op == chunk.code[ip]
  IN IF op = OpCode.Jump THEN op_jump(m)
     ELSE IF op = OpCode.JumpIfFalse THEN op_jump_if_false(m)
     ELSE op_loop(m)

\* C37: the compiler's encoding of jumps and the VM's decoding agree: a JUMP
\* or JUMP_IF_FALSE (taken) whose operand patch_jump has written goes to the
\* offset that was the length of the chunk when patch_jump was called, and the
\* LOOP of emit_loop(loop_start) goes to loop_start, for every distance the
\* compiler accepts.
C37_JumpsLand ==
  [][/\ (pc = "jumps" /\ last'.op = "patch_jump"
         /\ Len(parser.chunk.code) - last.ptr - 2 <= U16_MAX) =>
          LET m == jumped(parser'.chunk, last.ptr)
          IN /\ running(m)
             /\ m.frame.ip = Len(parser.chunk.code)
     /\ (pc = "jumps" /\ last'.op = "emit_loop"
         /\ Len(parser.chunk.code) + 3 - last.ptr <= U16_MAX) =>
          LET m == jumped(parser'.chunk, Len(parser'.chunk.code) - 2)
          IN /\ running(m)
             /\ m.frame.ip = last.ptr]_vars

\* A JUMP_IF_FALSE over 65532 bytes has been patched: its operand has a high
\* byte, and the VM lands behind the code.
C37_LongJumpPatched ==
  /\ pc = "jumps"
  /\ last.op = "patch_jump"
  /\ ~parser.had_error
  /\ parser.chunk.code[last.ptr] = OpCode.JumpIfFalse
  /\ operand_at(parser.chunk.code, last.ptr) = 65532
  /\ jumped(parser.chunk, last.ptr).frame.ip = Len(parser.chunk.code)

\* The objects the instruction about to be executed reads with as_str or
\* as_string: both operands of an EQUAL of two objects, and the name constant
\* of GET_GLOBAL, SET_GLOBAL and DEFINE_GLOBAL.
read_as_strings ==
  LET m == Fetched
      a == peek(m, 1)
      b == peek(m, 0)
  IN IF instruction = OpCode.Equal
       THEN IF stack_top >= 2 /\ is_object(a) /\ is_object(b)
              THEN {a, b} ELSE {}
     ELSE IF instruction \in {OpCode.GetGlobal, OpCode.SetGlobal,
                              OpCode.DefineGlobal}
       THEN {read_constant_value(m)}
     ELSE {}

\* C38: no reachable state reads an object that is no string as a string:
\* EQUAL, GET_GLOBAL, SET_GLOBAL and DEFINE_GLOBAL apply as_str and as_string
\* to objects of kind String only, also when the operands of EQUAL are
\* functions or natives, as in `print clock == clock;`.
C38_StringReads ==
  (pc = "run" /\ running(Fetched)) =>
    \A v \in read_as_strings : is_string(obj_array.heap, v)

\* The opcodes run() dispatches on, and the operand bytes of each.
Opcodes == {OpCode[k] : k \in DOMAIN OpCode}

operand_bytes(op) ==
  IF op \in {OpCode.Jump, OpCode.JumpIfFalse, OpCode.Loop} THEN 2
  ELSE IF op \in {OpCode.Constant, OpCode.GetLocal, OpCode.SetLocal,
                  OpCode.GetGlobal, OpCode.DefineGlobal, OpCode.SetGlobal,
                  OpCode.Call} THEN 1
  ELSE 0

\* The offsets (0-based) at which the instructions of code begin, from i on.
RECURSIVE instruction_starts(_, _)
instruction_starts(code, i) ==
  IF i >= Len(code) THEN {}
  ELSE {i} \cup instruction_starts(code, i + 1 + operand_bytes(code[i + 1]))

\* Where the jump instruction at offset i of code goes.
jump_target(code, i) ==
  IF code[i + 1] = OpCode.Loop
    THEN i + 3 - operand_at(code, i + 1)
    ELSE i + 3 + operand_at(code, i + 1)

\* C39: in the bytecode of a successful compile every instruction and operand
\* is read at an ip below the length of the code: the chunk ends with a
\* RETURN, every instruction is an opcode run() knows with its operand bytes
\* inside the chunk, every jump goes to the beginning of an instruction of
\* the chunk, and the ip of run() is at the beginning of an instruction.
C39_FetchInBounds ==
  (compile_returned /\ func # 0) =>
    LET code == obj_array.heap[func].chunk.code
        starts == instruction_starts(code, 0)
    IN /\ code = parser.chunk.code
       /\ Len(code) - 1 \in starts
       /\ code[Len(code)] = OpCode.Return
       /\ \A i \in starts :
            /\ code[i + 1] \in Opcodes
            /\ i + operand_bytes(code[i + 1]) < Len(code)
            /\ code[i + 1] \in {OpCode.Jump, OpCode.JumpIfFalse, OpCode.Loop}
                 => jump_target(code, i) \in starts
       /\ pc = "run" =>
            /\ frame.function = func
            /\ frame.ip \in starts
       /\ panic \notin {"read_byte: index out of bounds",
                        "read_short: index out of bounds"}

\* run() has left the loop of `while (i < 2) i = i + 1;` by its JUMP_IF_FALSE and
\* is about to read the RETURN in the last byte of the chunk.
C39_AtFinalReturn ==
  /\ source = "var i = 0; while (i < 2) i = i + 1; print i;"
  /\ pc = "run"
  /\ stdout # <<>>
  /\ frame.ip = Len(parser.chunk.code) - 1
  /\ instruction = OpCode.Return

\* scan_token on the scanner sc: a token other than EOF moves the cursor on by
\* at least one byte and not past the end of the source; EOF leaves the cursor
\* at the end, and the scan_token after it returns EOF from the same place.
scan_token_advances(sc) ==
  LET r == scan_token(sc)
      again == scan_token(r.scanner)
  IN /\ r.scanner.current <= Len(sc.source)
     /\ IF r.token.token_type # "EOF"
          THEN r.scanner.current > sc.current
          ELSE /\ r.scanner.current = Len(sc.source)
               /\ again.token.token_type = "EOF"
               /\ again.scanner.current = r.scanner.current

\* C40: compile comes to an end on every source: a declaration() called at a
\* token other than EOF consumes at least one token (the token at hand begins
\* further on in the source afterwards), synchronize and block stop at EOF,
\* every scan_token that does not return EOF moves the cursor on by at least
\* one byte, and after EOF every scan_token returns EOF without moving it.
C40_CompileTerminates ==
  [][pc = "errors" =>
       /\ scan_token_advances(parser.scanner)
       /\ scan_token_advances(parser'.scanner)
       /\ parser'.scanner.start <= Len(source)
       /\ last'.op \in {"declaration", "advance"} =>
            parser'.scanner.start > parser.scanner.start
       /\ parser'.scanner.start >= parser.scanner.start]_vars

\* The block of `{ print 1;` has met EOF: block reported the missing brace,
\* synchronize stopped at EOF, and the scanner goes on returning EOF.
C40_BlockAtEOF ==
  /\ pc = "errors"
  /\ source = "{ print 1;"
  /\ last.op = "declaration"
  /\ check(parser, "EOF")
  /\ compile_errors = <<"Expect '}' after block.">>
  /\ ~parser.panic_mode
  /\ scan_token(parser.scanner).token.token_type = "EOF"

====
